---- MODULE Spec2Model ----
(***************************************************************************)
(* The core of the data-structure puzzle game: the scoring system          *)
(* (game/core/scoring.py), the puzzle model over a live data structure     *)
(* (game/core/puzzle.py, game/core/data_structures.py) and the level       *)
(* manager (game/core/level.py).                                           *)
(*                                                                         *)
(* Python values are modelled by their printed form: True, False and None  *)
(* are the strings "True", "False" and "None", the integers and strings    *)
(* stored in a structure are strings too ("5", "10", "A", "B").  Integer   *)
(* fields (score, combo, current_step, ...) are integers.                  *)
(***************************************************************************)
EXTENDS Integers, Sequences, FiniteSets, TLC

VARIABLES
    ss,         \* the ScoreSystem object
    puzzle,     \* the Puzzle object, its data structure included
    ds,         \* a data structure used directly
    lm,         \* the LevelManager object
    save_file,  \* the content of save_game.yaml
    ret,        \* the last call: its name, its arguments, what it returned
    game,       \* the Game object of main.py
    event_queue, \* the pygame events posted and not yet fetched
    ui          \* the UI components, by name

vars == <<ss, puzzle, ds, lm, save_file, ret, game, event_queue, ui>>

PyTrue == "True"
PyFalse == "False"
PyNone == "None"

\* int(n / d) of Python for an exact quotient n / d with d > 0: truncation
\* towards zero.
PyInt(n, d) == IF n >= 0 THEN n \div d ELSE -((-n) \div d)

Max(a, b) == IF a >= b THEN a ELSE b

Last(s) == s[Len(s)]

(***************************************************************************)
(* scoring.py                                                              *)
(***************************************************************************)

Modifiers == {"PERFECT", "GREAT", "GOOD", "OK", "POOR"}

\* ScoreModifier.value, in tenths (1.5, 1.2, 1.0, 0.8, 0.5).
ModifierValue(m) ==
    CASE m = "PERFECT" -> 15
      [] m = "GREAT" -> 12
      [] m = "GOOD" -> 10
      [] m = "OK" -> 8
      [] m = "POOR" -> 5

\* ScoreSystem.__init__ defaults.
base_points == 100
time_limit == 60

\* ScoreEvent(points, modifier, timestamp, message).  The timestamp is wall
\* clock time and is left out; of the message its fixed prefix is kept:
\* "" for add_score, "Bonus" for add_bonus, "Time penalty" for complete.
ScoreEvent(points, modifier, message) ==
    [points |-> points, modifier |-> modifier, message |-> message]

\* ScoreEvent.modified_points: int(points * modifier.value).  The float
\* product truncates to the exact quotient for every points in 0..200000
\* (checked against CPython), so the exact quotient is used.
modified_points(event) == PyInt(event.points * ModifierValue(event.modifier), 10)

\* The object after ScoreSystem().  multiplier is kept in tenths: 10 is 1.0,
\* 15 is 1.5, 20 is 2.0.  time_penalty is a whole number of seconds.
ScoreSystem ==
    [start_time |-> PyNone, score |-> 0, multiplier |-> 10, combo |-> 0,
     max_combo |-> 0, events |-> <<>>, bonus_points |-> 0, time_penalty |-> 0,
     completed |-> FALSE, perfect |-> TRUE]

start(s) == [s EXCEPT !.start_time = "t0"]

\* update_combo with the threshold of the 2.0 multiplier off by one.
update_combo_late(s, modifier) ==
    IF modifier = "POOR"
    THEN [s EXCEPT !.combo = 0, !.perfect = FALSE]
    ELSE LET c == s.combo + 1
         IN  [s EXCEPT !.combo = c,
                       !.max_combo = Max(s.max_combo, c),
                       !.multiplier = IF c > 10 THEN 20
                                      ELSE IF c >= 5 THEN 15
                                      ELSE s.multiplier]

\* update_combo with a POOR event that does not reset the combo.
update_combo_kept(s, modifier) ==
    IF modifier = "POOR"
    THEN [s EXCEPT !.perfect = FALSE]
    ELSE LET c == s.combo + 1
         IN  [s EXCEPT !.combo = c,
                       !.max_combo = Max(s.max_combo, c),
                       !.multiplier = IF c >= 10 THEN 20
                                      ELSE IF c >= 5 THEN 15
                                      ELSE s.multiplier]

\* The combo update of add_score.
update_combo(s, modifier) ==
    IF modifier = "POOR"
    THEN [s EXCEPT !.combo = 0, !.perfect = FALSE]
    ELSE LET c == s.combo + 1
         IN  [s EXCEPT !.combo = c,
                       !.max_combo = Max(s.max_combo, c),
                       !.multiplier = IF c >= 10 THEN 20
                                      ELSE IF c >= 5 THEN 15
                                      ELSE s.multiplier]

\* add_score(points, modifier): the object afterwards and the value returned.
add_score(s, points, modifier) ==
    IF s.completed
    THEN [obj |-> s, val |-> 0]
    ELSE LET event == ScoreEvent(points, modifier, "")
             s1 == [s EXCEPT !.events = Append(s.events, event)]
             s2 == update_combo(s1, modifier)
             credited == PyInt(modified_points(event) * s2.multiplier, 10)
         IN  [obj |-> [s2 EXCEPT !.score = s2.score + credited], val |-> credited]

\* add_time_penalty without the test of completed.
add_time_penalty_late(s, seconds) ==
    [s EXCEPT !.time_penalty = s.time_penalty + seconds]

add_time_penalty(s, seconds) ==
    IF ~s.completed
    THEN [s EXCEPT !.time_penalty = s.time_penalty + seconds]
    ELSE s

add_bonus(s, points) ==
    IF ~s.completed
    THEN [s EXCEPT !.bonus_points = s.bonus_points + points,
                   !.events = Append(s.events, ScoreEvent(points, "PERFECT", "Bonus"))]
    ELSE s

\* The time bonus of complete(): int(base_points * (1 - time_taken / time_limit)).
time_bonus(time_taken) == PyInt(base_points * (time_limit - time_taken), time_limit)

\* apply_time_penalty without the clamp at 0.
apply_time_penalty_unclamped(s) ==
    IF s.time_penalty > 0
    THEN LET penalty == PyInt(s.score * s.time_penalty, 100)
         IN  [s EXCEPT !.score = s.score - penalty,
                       !.events = Append(s.events,
                                         ScoreEvent(-penalty, "POOR", "Time penalty"))]
    ELSE s

\* The penalty step of complete(): int(score * (time_penalty / 100.0)), the
\* score clamped at 0, and the penalty event.  time_penalty is a multiple of
\* 25 in every state, so time_penalty / 100.0 and the product are exact.
apply_time_penalty(s) ==
    IF s.time_penalty > 0
    THEN LET penalty == PyInt(s.score * s.time_penalty, 100)
         IN  [s EXCEPT !.score = Max(0, s.score - penalty),
                       !.events = Append(s.events,
                                         ScoreEvent(-penalty, "POOR", "Time penalty"))]
    ELSE s

\* complete() on an object that is not completed yet; time_taken is
\* end_time - (start_time or end_time).
complete(s, time_taken) ==
    LET s1 == [s EXCEPT !.completed = TRUE]
        s2 == IF 2 * time_taken < time_limit /\ s1.perfect
              THEN add_bonus(s1, 2 * base_points)
              ELSE IF time_taken < time_limit /\ time_bonus(time_taken) > 0
              THEN add_bonus(s1, time_bonus(time_taken))
              ELSE s1
        s3 == IF s2.max_combo >= 5
              THEN add_bonus(s2, s2.max_combo * 10)
              ELSE s2
    IN  apply_time_penalty(s3)

\* get_results(), without the derived time_taken and accuracy.
get_results(s) ==
    [score |-> s.score, max_combo |-> s.max_combo, bonus_points |-> s.bonus_points,
     time_penalty |-> s.time_penalty, perfect |-> s.perfect, completed |-> s.completed]

(***************************************************************************)
(* data_structures.py                                                      *)
(*                                                                         *)
(* A call is modelled by its outcome: the object afterwards, the value     *)
(* returned, and the exception raised ("" when the call returns).  A call  *)
(* that raises returns nothing: its val is "None".                         *)
(***************************************************************************)

Returns(obj, val) == [obj |-> obj, val |-> val, raised |-> ""]
Raises(obj, exception) == [obj |-> obj, val |-> PyNone, raised |-> exception]

\* DataStructure.reset(): clears elements and operations, nothing else.
reset(d) == [d EXCEPT !.elements = <<>>, !.operations = <<>>]

Stack == [name |-> "Stack", elements |-> <<>>, operations |-> <<>>]

Stack_push(d, item) ==
    Returns([d EXCEPT !.elements = Append(d.elements, item),
                      !.operations = Append(d.operations, <<"PUSH", item>>)],
            PyTrue)

\* Stack.pop that logs the POP before it looks at the elements.
Stack_pop_logged(d) ==
    IF d.elements = <<>>
    THEN Returns([d EXCEPT !.operations = Append(d.operations, <<"POP", PyNone>>)], PyNone)
    ELSE LET item == Last(d.elements)
         IN  Returns([d EXCEPT !.elements = SubSeq(d.elements, 1, Len(d.elements) - 1),
                               !.operations = Append(d.operations, <<"POP", item>>)],
                     item)

Stack_pop(d) ==
    IF d.elements = <<>>
    THEN Returns(d, PyNone)
    ELSE LET item == Last(d.elements)
         IN  Returns([d EXCEPT !.elements = SubSeq(d.elements, 1, Len(d.elements) - 1),
                               !.operations = Append(d.operations, <<"POP", item>>)],
                     item)

Stack_peek(d) ==
    Returns(d, IF d.elements # <<>> THEN Last(d.elements) ELSE PyNone)

Queue == [name |-> "Queue", elements |-> <<>>, operations |-> <<>>]

Queue_enqueue(d, item) ==
    Returns([d EXCEPT !.elements = Append(d.elements, item),
                      !.operations = Append(d.operations, <<"ENQUEUE", item>>)],
            PyTrue)

\* dequeue that takes the element enqueued last.
Queue_dequeue_newest(d) ==
    IF d.elements = <<>> THEN Returns(d, PyNone)
    ELSE LET item == Last(d.elements)
         IN  Returns([d EXCEPT !.elements = SubSeq(@, 1, Len(@) - 1),
                               !.operations = Append(@, <<"DEQUEUE", item>>)],
                     item)

Queue_dequeue(d) ==
    IF d.elements = <<>>
    THEN Returns(d, PyNone)
    ELSE LET item == Head(d.elements)
         IN  Returns([d EXCEPT !.elements = Tail(d.elements),
                               !.operations = Append(d.operations, <<"DEQUEUE", item>>)],
                     item)

\* The integers that occur as Python values, by their printed form.
IsInt(v) == v \in {"-1", "0", "1", "2", "3", "4", "5", "10"}
IntOf(v) ==
    CASE v = "-1" -> -1
      [] v = "0" -> 0
      [] v = "1" -> 1
      [] v = "2" -> 2
      [] v = "3" -> 3
      [] v = "4" -> 4
      [] v = "5" -> 5
      [] v = "10" -> 10

\* A LinkedList: head is the chain of node values reached from the head node
\* by following next (<<>> when head is None).
LinkedList == [name |-> "Linked List", elements |-> <<>>, operations |-> <<>>,
               head |-> <<>>]

\* LinkedList._update_elements and the same method of the other structures
\* are modelled with the structure they read.
LinkedList_update_elements(d) == [d EXCEPT !.elements = d.head]

\* The walk of insert with one move too many: range(position).
RECURSIVE walk_on(_, _, _)
walk_on(current, steps, n) ==
    IF steps < 0 \/ current >= n THEN current
    ELSE walk_on(current + 1, steps - 1, n)

\* The walk of insert: `current` (an index into the chain) after at most
\* `steps` moves to the next node, stopping at the last node.
RECURSIVE walk(_, _, _)
walk(current, steps, n) ==
    IF steps <= 0 \/ current >= n THEN current
    ELSE walk(current + 1, steps - 1, n)

LinkedList_insert(d, value, position) ==
    LET n == Len(d.head)
        log(x) == [x EXCEPT !.operations =
                       Append(x.operations, <<"INSERT", <<value, position>>>>)]
    IN  IF (IsInt(position) /\ IntOf(position) = 0) \/ d.head = <<>>
        THEN Returns(log(LinkedList_update_elements(
                         [d EXCEPT !.head = <<value>> \o d.head])), PyTrue)
        ELSE IF ~IsInt(position)
        THEN Raises(d, "TypeError")   \* range(position - 1)
        ELSE LET current == walk(1, IntOf(position) - 1, n)
                 chain == SubSeq(d.head, 1, current) \o <<value>>
                          \o SubSeq(d.head, current + 1, n)
             IN  Returns(log(LinkedList_update_elements([d EXCEPT !.head = chain])),
                         PyTrue)

\* The index of the first node holding value at or after index i, 0 if none.
RECURSIVE find(_, _, _)
find(chain, value, i) ==
    IF i > Len(chain) THEN 0
    ELSE IF chain[i] = value THEN i
    ELSE find(chain, value, i + 1)

LinkedList_delete(d, value) ==
    LET i == find(d.head, value, 1)
    IN  IF d.head = <<>> \/ i = 0
        THEN Returns(d, PyFalse)
        ELSE Returns([LinkedList_update_elements(
                          [d EXCEPT !.head = SubSeq(d.head, 1, i - 1)
                                             \o SubSeq(d.head, i + 1, Len(d.head))])
                          EXCEPT !.operations = Append(d.operations, <<"DELETE", value>>)],
                     PyTrue)

\* A BinaryTree: root maps the position of each node to its value, the root
\* node at position 1 and the left and right child of the node at position
\* p at 2p and 2p + 1; a position outside the domain is None.
BinaryTree == [name |-> "Binary Tree", elements |-> <<>>, operations |-> <<>>,
               root |-> <<>>]

\* BinaryTree._update_elements: the loop over `queue`, which holds positions.
RECURSIVE level_order(_, _, _)
level_order(root, queue, elements) ==
    IF queue = <<>> THEN elements
    ELSE LET node == Head(queue)
         IN  IF node \in DOMAIN root
             THEN level_order(root, Tail(queue) \o <<2 * node, 2 * node + 1>>,
                              Append(elements, root[node]))
             ELSE level_order(root, Tail(queue), Append(elements, PyNone))

BinaryTree_update_elements(d) ==
    [d EXCEPT !.elements = IF d.root = <<>> THEN <<>>
                           ELSE level_order(d.root, <<1>>, <<>>)]

\* The loop of insert with the children of a full node put at the front of
\* the queue: a depth-first search for the free place.
RECURSIVE free_position_deep(_, _)
free_position_deep(root, queue) ==
    IF queue = <<>> THEN 0
    ELSE LET node == Head(queue)
         IN  IF 2 * node \notin DOMAIN root THEN 2 * node
             ELSE IF 2 * node + 1 \notin DOMAIN root THEN 2 * node + 1
             ELSE free_position_deep(root, <<2 * node, 2 * node + 1>> \o Tail(queue))

\* The loop of BinaryTree.insert: the position the new node is linked at, 0
\* when the queue runs empty.
RECURSIVE free_position(_, _)
free_position(root, queue) ==
    IF queue = <<>> THEN 0
    ELSE LET node == Head(queue)
         IN  IF 2 * node \notin DOMAIN root THEN 2 * node
             ELSE IF 2 * node + 1 \notin DOMAIN root THEN 2 * node + 1
             ELSE free_position(root, Tail(queue) \o <<2 * node, 2 * node + 1>>)

BinaryTree_insert(d, value) ==
    LET at == IF d.root = <<>> THEN 1 ELSE free_position(d.root, <<1>>)
    IN  IF at = 0
        THEN Returns(d, PyFalse)
        ELSE Returns([BinaryTree_update_elements([d EXCEPT !.root = (at :> value) @@ d.root])
                          EXCEPT !.operations = Append(d.operations, <<"INSERT", value>>)],
                     PyTrue)

\* A Graph: adjacency_list is the dict in insertion order, one
\* [vertex, neighbors] entry per key.
Graph == [name |-> "Graph", elements |-> <<>>, operations |-> <<>>,
          adjacency_list |-> <<>>]

InList(list, v) == \E i \in 1..Len(list) : list[i] = v

HasVertex(adjacency_list, v) ==
    \E i \in 1..Len(adjacency_list) : adjacency_list[i].vertex = v

\* adjacency_list[v], for a key v.
Neighbors(adjacency_list, v) ==
    adjacency_list[CHOOSE i \in 1..Len(adjacency_list) : adjacency_list[i].vertex = v].neighbors

Graph_update_elements(d) ==
    [d EXCEPT !.elements = [i \in 1..Len(d.adjacency_list) |->
                               <<d.adjacency_list[i].vertex, d.adjacency_list[i].neighbors>>]]

Graph_add_vertex(d, vertex) ==
    IF ~HasVertex(d.adjacency_list, vertex)
    THEN Returns(Graph_update_elements(
                     [d EXCEPT !.adjacency_list =
                          Append(d.adjacency_list, [vertex |-> vertex, neighbors |-> <<>>])]),
                 PyTrue)
    ELSE Returns(d, PyFalse)

\* adjacency_list[vertex1].append(vertex2); adjacency_list[vertex2].append(vertex1)
link(adjacency_list, vertex1, vertex2) ==
    LET first == [i \in 1..Len(adjacency_list) |->
                     IF adjacency_list[i].vertex = vertex1
                     THEN [adjacency_list[i] EXCEPT !.neighbors = Append(@, vertex2)]
                     ELSE adjacency_list[i]]
    IN  [i \in 1..Len(first) |->
            IF first[i].vertex = vertex2
            THEN [first[i] EXCEPT !.neighbors = Append(@, vertex1)]
            ELSE first[i]]

Graph_add_edge(d, vertex1, vertex2) ==
    IF /\ HasVertex(d.adjacency_list, vertex1)
       /\ HasVertex(d.adjacency_list, vertex2)
       /\ ~InList(Neighbors(d.adjacency_list, vertex1), vertex2)
    THEN Returns([Graph_update_elements(
                      [d EXCEPT !.adjacency_list = link(d.adjacency_list, vertex1, vertex2)])
                      EXCEPT !.operations = Append(d.operations,
                                                   <<"INSERT", <<vertex1, vertex2>>>>)],
                 PyTrue)
    ELSE Returns(d, PyFalse)

\* The loop of bfs with the neighbours put at the front of the queue: a
\* depth-first traversal.
RECURSIVE bfs_loop_deep(_, _, _)
bfs_loop_deep(adjacency_list, visited, queue) ==
    IF queue = <<>> THEN [visited |-> visited, raised |-> ""]
    ELSE LET vertex == Head(queue)
         IN  IF InList(visited, vertex)
             THEN bfs_loop_deep(adjacency_list, visited, Tail(queue))
             ELSE LET seen == Append(visited, vertex)
                  IN  IF ~HasVertex(adjacency_list, vertex)
                      THEN [visited |-> seen, raised |-> "KeyError"]
                      ELSE bfs_loop_deep(adjacency_list, seen,
                                         SelectSeq(Neighbors(adjacency_list, vertex),
                                                   LAMBDA v : ~InList(seen, v))
                                         \o Tail(queue))

\* The while loop of Graph.bfs: the visited list, or <<"KeyError">> when
\* adjacency_list[vertex] is looked up for a vertex that is no key.
RECURSIVE bfs_loop(_, _, _)
bfs_loop(adjacency_list, visited, queue) ==
    IF queue = <<>> THEN [visited |-> visited, raised |-> ""]
    ELSE LET vertex == Head(queue)
         IN  IF InList(visited, vertex)
             THEN bfs_loop(adjacency_list, visited, Tail(queue))
             ELSE LET seen == Append(visited, vertex)
                  IN  IF ~HasVertex(adjacency_list, vertex)
                      THEN [visited |-> seen, raised |-> "KeyError"]
                      ELSE bfs_loop(adjacency_list, seen,
                                    Tail(queue) \o
                                    SelectSeq(Neighbors(adjacency_list, vertex),
                                              LAMBDA v : ~InList(seen, v)))

Graph_bfs(d, start_vertex) ==
    LET loop == bfs_loop(d.adjacency_list, <<>>, <<start_vertex>>)
    IN  IF loop.raised # ""
        THEN Raises(d, loop.raised)
        ELSE Returns([d EXCEPT !.operations =
                          Append(d.operations, <<"TRAVERSE", <<"BFS", start_vertex>>>>)],
                     loop.visited)

(***************************************************************************)
(* puzzle.py                                                               *)
(***************************************************************************)

DataStructureTypes == {"Stack", "Queue", "LinkedList", "BinaryTree", "Graph"}

Difficulties == {"EASY", "MEDIUM", "HARD", "EXPERT"}

\* OperationType: the value of each member, which check_solution uses as the
\* name of the method to call.
OperationValue(operation) ==
    CASE operation = "PUSH" -> "push"
      [] operation = "POP" -> "pop"
      [] operation = "ENQUEUE" -> "enqueue"
      [] operation = "DEQUEUE" -> "dequeue"
      [] operation = "INSERT" -> "insert"
      [] operation = "DELETE" -> "delete"
      [] operation = "SEARCH" -> "search"
      [] operation = "TRAVERSE" -> "traverse"

PuzzleStep(operation, parameters, expected_result, hint) ==
    [operation |-> operation, parameters |-> parameters,
     expected_result |-> expected_result, hint |-> hint]

\* getattr(data_structure, name, None) is a method: the methods of each class
\* that bear the value of an OperationType.
HasMethod(d, method) ==
    CASE d.name = "Stack" -> method \in {"push", "pop"}
      [] d.name = "Queue" -> method \in {"enqueue", "dequeue"}
      [] d.name = "Linked List" -> method \in {"insert", "delete"}
      [] d.name = "Binary Tree" -> method \in {"insert"}
      [] d.name = "Graph" -> FALSE

\* operation(*parameters): a call with the wrong number of arguments raises
\* TypeError before the method runs.
Invoke(d, method, parameters) ==
    LET n == Len(parameters)
    IN  CASE d.name = "Stack" /\ method = "push" ->
                IF n = 1 THEN Stack_push(d, parameters[1]) ELSE Raises(d, "TypeError")
          [] d.name = "Stack" /\ method = "pop" ->
                IF n = 0 THEN Stack_pop(d) ELSE Raises(d, "TypeError")
          [] d.name = "Queue" /\ method = "enqueue" ->
                IF n = 1 THEN Queue_enqueue(d, parameters[1]) ELSE Raises(d, "TypeError")
          [] d.name = "Queue" /\ method = "dequeue" ->
                IF n = 0 THEN Queue_dequeue(d) ELSE Raises(d, "TypeError")
          [] d.name = "Linked List" /\ method = "insert" ->
                IF n = 1 THEN LinkedList_insert(d, parameters[1], "0")
                ELSE IF n = 2 THEN LinkedList_insert(d, parameters[1], parameters[2])
                ELSE Raises(d, "TypeError")
          [] d.name = "Linked List" /\ method = "delete" ->
                IF n = 1 THEN LinkedList_delete(d, parameters[1]) ELSE Raises(d, "TypeError")
          [] d.name = "Binary Tree" /\ method = "insert" ->
                IF n = 1 THEN BinaryTree_insert(d, parameters[1]) ELSE Raises(d, "TypeError")

initialize_structure(data_structure_type) ==
    CASE data_structure_type = "Stack" -> Stack
      [] data_structure_type = "Queue" -> Queue
      [] data_structure_type = "LinkedList" -> LinkedList
      [] data_structure_type = "BinaryTree" -> BinaryTree
      [] data_structure_type = "Graph" -> Graph

\* Puzzle(..., data_structure_type).  puzzle_id, title, description,
\* difficulty and puzzle_type are written once and never read.
Puzzle(data_structure_type) ==
    [data_structure_type |-> data_structure_type, steps |-> <<>>, current_step |-> 0,
     solved |-> FALSE, data_structure |-> initialize_structure(data_structure_type)]

add_step(p, step) == [p EXCEPT !.steps = Append(p.steps, step)]

\* get_current_step() is not None.
HasCurrentStep(p) == p.current_step < Len(p.steps)

\* get_current_step(), when it is not None.
get_current_step(p) == p.steps[p.current_step + 1]

\* check_solution that starts the puzzle over after a wrong result.
check_solution_rewinds(p, user_input) ==
    IF ~HasCurrentStep(p) THEN Returns(p, PyFalse)
    ELSE LET current_step == get_current_step(p)
             method == OperationValue(current_step.operation)
         IN  IF ~HasMethod(p.data_structure, method) THEN Returns(p, PyFalse)
             ELSE LET call == Invoke(p.data_structure, method, current_step.parameters)
                      p1 == [p EXCEPT !.data_structure = call.obj]
                  IN  IF call.raised = "" /\ call.val = current_step.expected_result
                      THEN Returns([p1 EXCEPT !.current_step = p.current_step + 1,
                                              !.solved = IF p.current_step + 1 >= Len(p.steps)
                                                         THEN TRUE ELSE @],
                                   PyTrue)
                      ELSE Returns([p1 EXCEPT !.current_step = 0], PyFalse)

\* check_solution without the try/except around the operation.
check_solution_uncaught(p, user_input) ==
    IF ~HasCurrentStep(p) THEN Returns(p, PyFalse)
    ELSE LET current_step == get_current_step(p)
             method == OperationValue(current_step.operation)
         IN  IF ~HasMethod(p.data_structure, method) THEN Returns(p, PyFalse)
             ELSE LET call == Invoke(p.data_structure, method, current_step.parameters)
                      p1 == [p EXCEPT !.data_structure = call.obj]
                  IN  IF call.raised # "" THEN Raises(p1, call.raised)
                      ELSE IF call.val = current_step.expected_result
                      THEN Returns([p1 EXCEPT !.current_step = p.current_step + 1,
                                              !.solved = IF p.current_step + 1 >= Len(p.steps)
                                                         THEN TRUE ELSE @],
                                   PyTrue)
                      ELSE Returns(p1, PyFalse)

\* check_solution(user_input): the puzzle afterwards and the value returned.
\* An exception of the operation is caught, so the call itself never raises.
check_solution(p, user_input) ==
    IF ~HasCurrentStep(p) THEN Returns(p, PyFalse)
    ELSE LET current_step == get_current_step(p)
             method == OperationValue(current_step.operation)
         IN  IF ~HasMethod(p.data_structure, method) THEN Returns(p, PyFalse)
             ELSE LET call == Invoke(p.data_structure, method, current_step.parameters)
                      p1 == [p EXCEPT !.data_structure = call.obj]
                  IN  IF call.raised = "" /\ call.val = current_step.expected_result
                      THEN Returns([p1 EXCEPT !.current_step = p.current_step + 1,
                                              !.solved = IF p.current_step + 1 >= Len(p.steps)
                                                         THEN TRUE ELSE @],
                                   PyTrue)
                      ELSE Returns(p1, PyFalse)

get_hint(p) ==
    IF HasCurrentStep(p) /\ get_current_step(p).hint # ""
    THEN get_current_step(p).hint
    ELSE "No hint available for this step."

\* reset that clears the data structure with its own reset() and keeps the
\* instance.
Puzzle_reset_clears(p) ==
    [p EXCEPT !.current_step = 0, !.solved = FALSE,
              !.data_structure = reset(p.data_structure)]

Puzzle_reset(p) ==
    [p EXCEPT !.current_step = 0, !.solved = FALSE,
              !.data_structure = initialize_structure(p.data_structure_type)]

RECURSIVE add_steps(_, _)
add_steps(p, steps) ==
    IF steps = <<>> THEN p ELSE add_steps(add_step(p, Head(steps)), Tail(steps))

generate_stack_puzzle(difficulty) ==
    add_steps(Puzzle("Stack"),
              IF difficulty = "EASY"
              THEN << PuzzleStep("PUSH", <<"5">>, PyTrue,
                                 "Use the push operation to add an element to the stack."),
                      PuzzleStep("PUSH", <<"10">>, PyTrue, "Add another element to the stack."),
                      PuzzleStep("POP", <<>>, "10", "Remove the top element from the stack.") >>
              ELSE <<>>)

generate_queue_puzzle(difficulty) ==
    add_steps(Puzzle("Queue"),
              IF difficulty = "EASY"
              THEN << PuzzleStep("ENQUEUE", <<"A">>, PyTrue,
                                 "Use enqueue to add an element to the queue."),
                      PuzzleStep("ENQUEUE", <<"B">>, PyTrue, "Add another element to the queue."),
                      PuzzleStep("DEQUEUE", <<>>, "A",
                                 "Remove the first element from the queue (FIFO).") >>
              ELSE <<>>)

\* generate_puzzle raises ValueError for every type but Stack and Queue.
generate_puzzle_raises(data_structure_type) ==
    data_structure_type \notin {"Stack", "Queue"}

\* generate_puzzle(data_structure_type, difficulty), when it does not raise.
generate_puzzle(data_structure_type, difficulty) ==
    IF data_structure_type = "Stack"
    THEN generate_stack_puzzle(difficulty)
    ELSE generate_queue_puzzle(difficulty)

(***************************************************************************)
(* level.py                                                                *)
(***************************************************************************)

LevelCategories == {"tutorial", "practice", "challenge", "expert"}

\* The values of PuzzleDifficulty: EASY = 1 .. EXPERT = 4.
PuzzleDifficultyValues == 1..4

DifficultyName(value) ==
    CASE value = 1 -> "EASY"
      [] value = 2 -> "MEDIUM"
      [] value = 3 -> "HARD"
      [] value = 4 -> "EXPERT"

\* current_level_id is None.
NoLevel == 0

LevelData(level_id, title, description, category, difficulty, data_structure, required_score, unlocks) ==
    [level_id |-> level_id, title |-> title, description |-> description,
     category |-> category, difficulty |-> difficulty,
     data_structure |-> data_structure, required_score |-> required_score,
     unlocks |-> unlocks]

\* The records of _create_default_levels.
default_levels ==
    << LevelData(1, "Stack Basics", "Learn the basic operations of a stack",
                 "tutorial", 1, "Stack", 0, <<2, 3>>),
       LevelData(2, "Queue Basics", "Learn the basic operations of a queue",
                 "tutorial", 1, "Queue", 50, <<4>>),
       LevelData(3, "Stack Challenge", "Practice more with stacks",
                 "practice", 2, "Stack", 70, <<5>>),
       LevelData(4, "Queue Challenge", "Practice more with queues",
                 "practice", 2, "Queue", 70, <<6>>),
       LevelData(5, "Linked List Introduction", "Learn the basics of linked lists",
                 "tutorial", 2, "LinkedList", 100, <<7>>),
       LevelData(6, "Binary Tree Basics", "Learn the basics of binary trees",
                 "tutorial", 3, "BinaryTree", 120, <<8>>),
       LevelData(7, "Graph Traversal", "Learn about graph traversal algorithms",
                 "challenge", 4, "Graph", 150, <<>>),
       LevelData(8, "Advanced Challenges", "Test your skills with advanced problems",
                 "expert", 5, "Stack", 200, <<>>) >>

\* The keys from_dict reads with data[...]; required_score and unlocks are
\* read with data.get(...).
RequiredKeys ==
    {"level_id", "title", "description", "category", "difficulty", "data_structure"}

\* Level.from_dict raises: data[...] of a key that is missing,
\* LevelCategory(...) or PuzzleDifficulty(...) of a value that is no member,
\* or ds_map[...] of a name that is no key.
from_dict_raises(data) ==
    \/ RequiredKeys \ DOMAIN data # {}
    \/ data.category \notin LevelCategories
    \/ data.difficulty \notin PuzzleDifficultyValues
    \/ data.data_structure \notin DataStructureTypes

\* Level.from_dict(data), when it does not raise.  puzzle is <<>> for None
\* and <<p>> for the puzzle p.
from_dict(data) ==
    [level_id |-> data.level_id, title |-> data.title,
     description |-> data.description, category |-> data.category,
     difficulty |-> data.difficulty, data_structure_type |-> data.data_structure,
     required_score |-> IF "required_score" \in DOMAIN data
                        THEN data.required_score ELSE 0,
     unlocks |-> IF "unlocks" \in DOMAIN data THEN data.unlocks ELSE <<>>,
     completed |-> FALSE, high_score |-> 0, attempts |-> 0, puzzle |-> <<>>]

\* _add_level without its own try: the exception of a record reaches the
\* try of _load_levels and what was loaded before is not kept.
add_level_forgets(levels, level_data) ==
    IF from_dict_raises(level_data) THEN <<>>
    ELSE (level_data.level_id :> from_dict(level_data)) @@ levels

\* _add_level(level_data) on the levels dict: a record that cannot be turned
\* into a Level is reported and skipped.
add_level(levels, level_data) ==
    IF from_dict_raises(level_data) THEN levels
    ELSE (level_data.level_id :> from_dict(level_data)) @@ levels

RECURSIVE add_levels(_, _)
add_levels(levels, records) ==
    IF records = <<>> THEN levels
    ELSE add_levels(add_level(levels, Head(records)), Tail(records))

\* LevelManager() on an empty levels directory: _create_default_levels.
LevelManager ==
    [levels |-> add_levels(<<>>, default_levels), current_level_id |-> NoLevel]

\* LevelManager.__init__ before _load_levels runs.
NewLevelManager == [levels |-> <<>>, current_level_id |-> NoLevel]

\* _load_levels() for the records found in the *.yaml files of the levels
\* directory, in the order they are read; no record: the directory is empty
\* and the default levels are created.
load_levels(m, records) ==
    IF records = <<>>
    THEN [m EXCEPT !.levels = add_levels(m.levels, default_levels)]
    ELSE [m EXCEPT !.levels = add_levels(m.levels, records)]

\* get_level(level_id): <<>> for None and <<level>> for the level.
get_level(m, level_id) ==
    IF level_id \in DOMAIN m.levels THEN <<m.levels[level_id]>> ELSE <<>>

\* get_available_levels(), as the set of the ids of the levels returned.
get_available_levels(m) ==
    {id \in DOMAIN m.levels :
        \/ m.levels[id].completed
        \/ m.levels[id].required_score = 0
        \/ \E i \in 1..Len(m.levels[id].unlocks) :
              LET uid == m.levels[id].unlocks[i]
              IN  uid \in DOMAIN m.levels /\ m.levels[uid].completed}

\* Level.start(): generate_puzzle may raise, and then nothing is assigned.
Level_start(level) ==
    IF generate_puzzle_raises(level.data_structure_type)
    THEN Raises(level, "ValueError")
    ELSE LET p == generate_puzzle(level.data_structure_type,
                                  DifficultyName(level.difficulty))
         IN  Returns([level EXCEPT !.puzzle = <<p>>, !.attempts = @ + 1], <<p>>)

\* Level.complete that records the score of the last completion.
Level_complete_last(level, score) ==
    [level EXCEPT !.completed = TRUE, !.high_score = score]

Level_complete(level, score) ==
    [level EXCEPT !.completed = TRUE, !.high_score = Max(@, score)]

\* start_level(level_id): current_level_id is set before Level.start() runs,
\* so it stays set when start() raises.
start_level(m, level_id) ==
    IF level_id \in DOMAIN m.levels
    THEN LET m1 == [m EXCEPT !.current_level_id = level_id]
             call == Level_start(m.levels[level_id])
         IN  [obj |-> [m1 EXCEPT !.levels[level_id] = call.obj],
              val |-> call.val, raised |-> call.raised]
    ELSE Returns(m, <<>>)

\* What save_progress writes: current_level_id and, per level, the fields of
\* to_dict that load_progress reads back.
save_data(m) ==
    [kind |-> "data", current_level_id |-> m.current_level_id,
     levels |-> [id \in DOMAIN m.levels |->
                    [completed |-> m.levels[id].completed,
                     high_score |-> m.levels[id].high_score,
                     attempts |-> m.levels[id].attempts]]]

\* save_game.yaml when it does not exist, is empty, or cannot be parsed into
\* a mapping.
NoFile(kind) == [kind |-> kind, current_level_id |-> NoLevel, levels |-> <<>>]

\* save_progress(): the file afterwards.  An error of open() or yaml.dump is
\* caught and printed; writable says whether the file can be opened.
save_progress(m, file, writable) ==
    IF writable THEN save_data(m) ELSE file

\* complete_level(score): the manager and the file afterwards and the value
\* returned.
complete_level(m, file, score, writable) ==
    IF m.current_level_id # NoLevel /\ m.current_level_id \in DOMAIN m.levels
    THEN LET m1 == [m EXCEPT !.levels[m.current_level_id] = Level_complete(@, score)]
         IN  [obj |-> m1, file |-> save_progress(m1, file, writable), val |-> PyTrue]
    ELSE [obj |-> m, file |-> file, val |-> PyFalse]

\* The except branch of load_progress without the reset of attempts.
reset_progress_scores(m) ==
    [m EXCEPT !.current_level_id = NoLevel,
              !.levels = [id \in DOMAIN m.levels |->
                             [m.levels[id] EXCEPT !.completed = FALSE,
                                                  !.high_score = 0]]]

\* The except branch of load_progress.
reset_progress(m) ==
    [m EXCEPT !.current_level_id = NoLevel,
              !.levels = [id \in DOMAIN m.levels |->
                             [m.levels[id] EXCEPT !.completed = FALSE,
                                                  !.high_score = 0,
                                                  !.attempts = 0]]]

load_progress(m, file) ==
    CASE file.kind = "missing" -> m           \* not os.path.exists(save_path)
      [] file.kind = "empty" -> m             \* not save_data
      [] file.kind = "garbage" -> reset_progress(m)
      [] file.kind = "data" ->
            [m EXCEPT !.current_level_id = file.current_level_id,
                      !.levels = [id \in DOMAIN m.levels |->
                                     IF id \in DOMAIN file.levels
                                     THEN [m.levels[id] EXCEPT
                                              !.completed = file.levels[id].completed,
                                              !.high_score = file.levels[id].high_score,
                                              !.attempts = file.levels[id].attempts]
                                     ELSE m.levels[id]]]

(***************************************************************************)
(* main.py: the game shell, a state machine driven by pygame events.       *)
(***************************************************************************)

GameState ==
    { "AUTHENTICATION", "MAIN_MENU", "DATA_STRUCTURE_SELECT", "LEVEL_SELECT",
      "GAMEPLAY", "PAUSE", "GAME_OVER", "LEVEL_COMPLETE" }

\* A pygame event: its type and, for KEYDOWN, its key.
Event(type, key) == [type |-> type, key |-> key]

\* Game.__init__.
Game ==
    [running |-> TRUE, state |-> "AUTHENTICATION", current_ds |-> PyNone,
     current_level |-> 1, score |-> 0, user_authenticated |-> FALSE]

handle_authentication_events(g, event) ==
    IF event.type = "KEYDOWN" /\ event.key = "K_RETURN"
    THEN [g EXCEPT !.user_authenticated = TRUE, !.state = "MAIN_MENU"]
    ELSE g

handle_main_menu_events(g, event) ==
    IF event.type = "KEYDOWN"
    THEN IF event.key = "K_1" THEN [g EXCEPT !.state = "DATA_STRUCTURE_SELECT"]
         ELSE IF event.key = "K_2" THEN g
         ELSE IF event.key = "K_3" THEN [g EXCEPT !.running = FALSE]
         ELSE g
    ELSE g

\* The body of the loop of handle_events where QUIT stops the game only
\* from the main menu.
handle_event_menu_quit(g, event) ==
    LET seen == IF event.type = "QUIT" /\ g.state = "MAIN_MENU"
                THEN [g EXCEPT !.running = FALSE] ELSE g
    IN  IF seen.state = "AUTHENTICATION" THEN handle_authentication_events(seen, event)
        ELSE IF seen.state = "MAIN_MENU" THEN handle_main_menu_events(seen, event)
        ELSE seen

\* The body of the loop of handle_events, for one event.
handle_event(g, event) ==
    LET seen == IF event.type = "QUIT" THEN [g EXCEPT !.running = FALSE] ELSE g
    IN  IF seen.state = "AUTHENTICATION" THEN handle_authentication_events(seen, event)
        ELSE IF seen.state = "MAIN_MENU" THEN handle_main_menu_events(seen, event)
        ELSE seen

\* handle_events: every event pygame.event.get() returns, in order.
RECURSIVE handle_events(_, _)
handle_events(g, events) ==
    IF events = <<>> THEN g
    ELSE handle_events(handle_event(g, Head(events)), Tail(events))

(***************************************************************************)
(* ui/component.py and ui/input_field.py.  The components are kept in a    *)
(* heap u: u.comp[name] is the object called name, a parent is a name or   *)
(* None, children is the list of the names of the children, and            *)
(* u.dispatched lists the calls of dispatch_event made by the call in      *)
(* progress, as <<event type, target>>.                                    *)
(***************************************************************************)

\* UIComponent.__init__(x, y, width, height) with no parent; cls is the
\* class constructed.  An InputField keeps its own _hovered, _pressed and
\* _focused beside the attributes of the base class.
UIComponent(cls, x, y, width, height) ==
    [cls |-> cls, x |-> x, y |-> y, width |-> width, height |-> height,
     parent |-> PyNone, children |-> <<>>, visible |-> TRUE, enabled |-> TRUE,
     focused |-> FALSE, hovered |-> FALSE, z_index |-> 0,
     _hovered |-> FALSE, _pressed |-> FALSE, _focused |-> FALSE]

\* dispatch_event(UIEvent(type, self)): no component here has an on_<type>
\* method or a listener, so the call is only recorded.
dispatch_event(u, self, type) ==
    [u EXCEPT !.dispatched = Append(@, <<type, self>>)]

\* add_child(child); _update_child_positions of the base class does nothing.
add_child(u, self, child) ==
    IF ~InList(u.comp[self].children, child)
    THEN [u EXCEPT !.comp[self].children = Append(@, child),
                   !.comp[child].parent = self]
    ELSE u

\* remove_child(child): the heap afterwards and the value returned.
remove_child(u, self, child) ==
    IF InList(u.comp[self].children, child)
    THEN LET at == CHOOSE i \in 1..Len(u.comp[self].children) :
                       u.comp[self].children[i] = child
         IN  Returns([u EXCEPT !.comp[self].children =
                                   SubSeq(@, 1, at - 1) \o SubSeq(@, at + 1, Len(@)),
                               !.comp[child].parent = PyNone],
                     PyTrue)
    ELSE Returns(u, PyFalse)

\* get_absolute_position(): the position added to that of the parent, and
\* so on up the chain of parents.  A chain that comes back to a component
\* never ends: the calls nest until Python raises RecursionError.  depth
\* counts the calls, which are more than there are components only on such
\* a chain.
RECURSIVE absolute_position(_, _, _)
absolute_position(u, self, depth) ==
    IF depth > Cardinality(DOMAIN u.comp) THEN Raises(u, "RecursionError")
    ELSE IF u.comp[self].parent # PyNone
    THEN LET up == absolute_position(u, u.comp[self].parent, depth + 1)
         IN  IF up.raised # "" THEN up
             ELSE Returns(u, <<up.val[1] + u.comp[self].x, up.val[2] + u.comp[self].y>>)
    ELSE Returns(u, <<u.comp[self].x, u.comp[self].y>>)

get_absolute_position(u, self) == absolute_position(u, self, 1)

\* point_in_component(point): inside the rectangle at the absolute position.
point_in_component(u, self, point) ==
    LET position == get_absolute_position(u, self)
    IN  IF position.raised # "" THEN position
        ELSE Returns(u, /\ position.val[1] <= point[1]
                        /\ point[1] < position.val[1] + u.comp[self].width
                        /\ position.val[2] <= point[2]
                        /\ point[2] < position.val[2] + u.comp[self].height)

\* set_focus(False) of either class: UIComponent keeps the flag in focused,
\* InputField in _focused (with cursor_visible, which is not modelled).
lose_focus(u, self) ==
    IF u.comp[self].cls = "InputField"
    THEN IF u.comp[self]._focused
         THEN dispatch_event([u EXCEPT !.comp[self]._focused = FALSE], self, "BLUR")
         ELSE u
    ELSE IF u.comp[self].focused
         THEN dispatch_event([u EXCEPT !.comp[self].focused = FALSE], self, "BLUR")
         ELSE u

\* The loop of _child_got_focus over self.children, from the i-th child:
\* it tests c.focused, the attribute of the base class, for every class.
RECURSIVE child_got_focus_loop(_, _, _, _)
child_got_focus_loop(u, self, child, i) ==
    IF i > Len(u.comp[self].children) THEN u
    ELSE LET c == u.comp[self].children[i]
         IN  child_got_focus_loop(
                 IF c # child /\ u.comp[c].focused THEN lose_focus(u, c) ELSE u,
                 self, child, i + 1)

\* _child_got_focus(child): the other focused children lose the focus, then
\* the parent is told that self got the focus.  depth counts the calls up
\* the chain of parents, as in absolute_position.
RECURSIVE child_got_focus(_, _, _, _)
child_got_focus(u, self, child, depth) ==
    IF depth > Cardinality(DOMAIN u.comp) THEN Raises(u, "RecursionError")
    ELSE LET u1 == child_got_focus_loop(u, self, child, 1)
         IN  IF u1.comp[self].parent # PyNone
             THEN child_got_focus(u1, u1.comp[self].parent, self, depth + 1)
             ELSE Returns(u1, PyNone)

\* set_focus(True) of either class.
gain_focus(u, self) ==
    LET is_focused == IF u.comp[self].cls = "InputField"
                      THEN u.comp[self]._focused ELSE u.comp[self].focused
        u1 == IF u.comp[self].cls = "InputField"
              THEN [u EXCEPT !.comp[self]._focused = TRUE]
              ELSE [u EXCEPT !.comp[self].focused = TRUE]
        u2 == dispatch_event(u1, self, "FOCUS")
    IN  IF is_focused THEN Returns(u, PyNone)
        ELSE IF u2.comp[self].parent # PyNone
        THEN child_got_focus(u2, u2.comp[self].parent, self, 1)
        ELSE Returns(u2, PyNone)

\* set_focus(focused): UIComponent.set_focus or InputField.set_focus.
set_focus(u, self, focused) ==
    IF focused THEN gain_focus(u, self) ELSE Returns(lose_focus(u, self), PyNone)

\* A pygame mouse event: its type and button.
MouseEvent(type, button) == [type |-> type, button |-> button]

\* UIComponent.handle_event after no child handled the event.
own_handle_event(u, self, event, mouse_pos) ==
    IF event.type = "MOUSEMOTION"
    THEN LET inside == point_in_component(u, self, mouse_pos)
         IN  IF inside.raised # "" THEN inside
             ELSE LET u1 == [u EXCEPT !.comp[self].hovered = inside.val]
                  IN  Returns(IF inside.val # u.comp[self].hovered
                              THEN dispatch_event(u1, self, "HOVER") ELSE u1,
                              PyFalse)
    ELSE IF event.type = "MOUSEBUTTONDOWN"
    THEN IF event.button = 1 /\ u.comp[self].hovered
         THEN LET u1 == dispatch_event(u, self, "PRESS")
                  call == IF ~u1.comp[self].focused
                          THEN set_focus(u1, self, TRUE) ELSE Returns(u1, PyNone)
              IN  IF call.raised # "" THEN call ELSE Returns(call.obj, PyTrue)
         ELSE Returns(u, PyFalse)
    ELSE IF event.type = "MOUSEBUTTONUP"
    THEN IF event.button = 1 /\ u.comp[self].hovered
         THEN Returns(dispatch_event(dispatch_event(u, self, "CLICK"), self, "RELEASE"),
                      PyTrue)
         ELSE Returns(u, PyFalse)
    ELSE Returns(u, PyFalse)

\* InputField.handle_event for a mouse event on an empty field: the text,
\* the cursor and the selection are not modelled.
InputField_handle_event(u, self, event, mouse_pos) ==
    IF ~u.comp[self].visible \/ ~u.comp[self].enabled THEN Returns(u, PyFalse)
    ELSE LET mouse_over == point_in_component(u, self, mouse_pos)
             outside(v) ==
                 \* the test for a click outside, which ends handle_event
                 IF event.type = "MOUSEBUTTONDOWN" /\ ~mouse_over.val
                        /\ v.comp[self]._focused
                 THEN dispatch_event([v EXCEPT !.comp[self]._focused = FALSE],
                                     self, "BLUR")
                 ELSE v
         IN  IF mouse_over.raised # "" THEN mouse_over
             ELSE IF event.type = "MOUSEMOTION"
             THEN LET u1 == [u EXCEPT !.comp[self]._hovered = mouse_over.val]
                  IN  IF u1.comp[self]._pressed /\ u1.comp[self]._focused
                      THEN Returns(u1, PyTrue)
                      ELSE Returns(u1, PyFalse)
             ELSE IF event.type = "MOUSEBUTTONDOWN" /\ event.button = 1
             THEN LET u1 == [u EXCEPT !.comp[self]._pressed = TRUE]
                  IN  Returns(IF ~u1.comp[self]._focused
                              THEN dispatch_event(
                                       [u1 EXCEPT !.comp[self]._focused = TRUE],
                                       self, "FOCUS")
                              ELSE u1,
                              PyTrue)
             ELSE IF event.type = "MOUSEBUTTONUP" /\ event.button = 1
             THEN Returns([u EXCEPT !.comp[self]._pressed = FALSE], PyTrue)
             ELSE Returns(outside(u), PyFalse)

\* child.handle_event(event), the method of the class of the child, and
\* UIComponent.handle_event with its loop over reversed(self.children), from
\* the i-th child down.  mouse_pos is what pygame.mouse.get_pos() returns.
RECURSIVE UIComponent_handle_event(_, _, _, _)
RECURSIVE handle_event_children(_, _, _, _, _)
call_handle_event(u, self, event, mouse_pos) ==
    IF u.comp[self].cls = "InputField"
    THEN InputField_handle_event(u, self, event, mouse_pos)
    ELSE UIComponent_handle_event(u, self, event, mouse_pos)

handle_event_children(u, self, event, mouse_pos, i) ==
    IF i < 1 THEN Returns(u, PyFalse)
    ELSE LET call == call_handle_event(u, u.comp[self].children[i], event, mouse_pos)
         IN  IF call.raised # "" \/ call.val = PyTrue THEN call
             ELSE handle_event_children(call.obj, self, event, mouse_pos, i - 1)

UIComponent_handle_event(u, self, event, mouse_pos) ==
    IF ~u.comp[self].visible \/ ~u.comp[self].enabled THEN Returns(u, PyFalse)
    ELSE LET call == handle_event_children(u, self, event, mouse_pos,
                                           Len(u.comp[self].children))
         IN  IF call.raised # "" \/ call.val = PyTrue THEN call
             ELSE own_handle_event(call.obj, self, event, mouse_pos)

\* render(), as the order the children of self are drawn in: sorted by
\* z_index, children of equal z_index in the order of the list.  The child
\* drawn last is on top.
render_order(u, self) ==
    LET children == u.comp[self].children
        before(i, j) ==
            \/ u.comp[children[i]].z_index < u.comp[children[j]].z_index
            \/ /\ u.comp[children[i]].z_index = u.comp[children[j]].z_index
               /\ i < j
        place(i) == 1 + Cardinality({j \in 1..Len(children) : before(j, i)})
    IN  [n \in 1..Len(children) |->
            children[CHOOSE i \in 1..Len(children) : place(i) = n]]

(***************************************************************************)
(* The calls, as actions.  ret records the call made last.                 *)
(***************************************************************************)

\* An object that a specification does not construct.
Absent == "absent"

Called(op, args, val, raised) == [op |-> op, args |-> args, val |-> val, raised |-> raised]

\* Bounds of the exploration.
MaxEvents == 4
MaxPenalty == 150
MaxStreakEvents == 16

\* The arguments the calls are made with.
Points == {7}
BonusPoints == {25}
PenaltySeconds == {75}
\* time.time() - start_time at complete(), in seconds: under half the time
\* limit, under the time limit, over it.
TimesTaken == {0, 45, 70}
StreakPoints == {7}
StreakModifiers == {"GREAT", "POOR"}

OtherThanScore == <<puzzle, ds, lm, save_file, game, event_queue, ui>>

Start ==
    /\ ss' = start(ss)
    /\ ret' = Called("start", <<>>, PyNone, "")
    /\ UNCHANGED OtherThanScore

AddScoreFrom(points_from, modifiers_from, max_events) ==
    \E points \in points_from, modifier \in modifiers_from :
        /\ Len(ss.events) < max_events
        /\ LET call == add_score(ss, points, modifier)
           IN  /\ ss' = call.obj
               /\ ret' = Called("add_score", <<points, modifier>>, call.val, "")
        /\ UNCHANGED OtherThanScore

AddScore == AddScoreFrom(Points, Modifiers, MaxEvents)

AddStreakScore == AddScoreFrom(StreakPoints, StreakModifiers, MaxStreakEvents)

AddBonus ==
    \E points \in BonusPoints :
        /\ Len(ss.events) < MaxEvents
        /\ ss' = add_bonus(ss, points)
        /\ ret' = Called("add_bonus", <<points>>, PyNone, "")
        /\ UNCHANGED OtherThanScore

AddTimePenalty ==
    \E seconds \in PenaltySeconds :
        /\ ss.time_penalty + seconds <= MaxPenalty
        /\ ss' = add_time_penalty(ss, seconds)
        /\ ret' = Called("add_time_penalty", <<seconds>>, PyNone, "")
        /\ UNCHANGED OtherThanScore

\* complete(): the first call computes time_taken (0 when start() was never
\* called) and args records it; a later call returns get_results() at once.
Complete ==
    /\ IF ss.completed
       THEN /\ ss' = ss
            /\ ret' = Called("complete", <<>>, get_results(ss), "")
       ELSE \E time_taken \in (IF ss.start_time = PyNone THEN {0} ELSE TimesTaken) :
               /\ ss' = complete(ss, time_taken)
               /\ ret' = Called("complete", <<time_taken>>, get_results(ss'), "")
    /\ UNCHANGED OtherThanScore

NoCall == Called("", <<>>, PyNone, "")

\* Everything but the ScoreSystem: not constructed.
RestOfScore ==
    /\ puzzle = Absent
    /\ ds = Absent
    /\ lm = Absent
    /\ save_file = Absent

InitScore ==
    /\ ss = ScoreSystem
    /\ ret = NoCall
    /\ game = Absent
    /\ event_queue = Absent
    /\ ui = Absent
    /\ RestOfScore

NextScore ==
    \/ Start
    \/ AddScore
    \/ AddBonus
    \/ AddTimePenalty
    \/ Complete

\* Any calls on a ScoreSystem, with any modifier.
SpecScore == InitScore /\ [][NextScore]_vars

NextStreak ==
    \/ AddStreakScore
    \/ Complete

\* Long runs of add_score, long enough for the combo to pass 10, to be reset
\* and to pass 5 again.
SpecStreak == InitScore /\ [][NextStreak]_vars

(***************************************************************************)
(* The calls on a Puzzle.                                                  *)
(***************************************************************************)

MaxSteps == 3
MaxOps == 4

\* The steps add_step is called with: steps that can succeed, a step whose
\* expected result may differ from the result, a call with a missing
\* argument, a linked-list insert at a position that is no integer.
StepPool ==
    { PuzzleStep("PUSH", <<"5">>, PyTrue, "push 5"),
      PuzzleStep("POP", <<>>, "5", ""),
      PuzzleStep("POP", <<>>, "10", "pop 10"),
      PuzzleStep("PUSH", <<>>, PyTrue, ""),
      PuzzleStep("ENQUEUE", <<"A">>, PyTrue, "enqueue A"),
      PuzzleStep("INSERT", <<"5", "A">>, PyTrue, "insert 5") }

\* What the player hands to check_solution: an operation, its parameters and
\* its result.
UserInput(operation, parameters, result) ==
    [operation |-> operation, parameters |-> parameters, result |-> result]

UserInputs ==
    { UserInput("PUSH", <<"5">>, PyTrue),
      UserInput("POP", <<>>, "10") }

OtherThanPuzzle == <<ss, ds, lm, save_file, game, event_queue, ui>>

GeneratePuzzle ==
    \E data_structure_type \in DataStructureTypes, difficulty \in Difficulties :
        /\ IF generate_puzzle_raises(data_structure_type)
           THEN /\ puzzle' = puzzle
                /\ ret' = Called("generate_puzzle", <<data_structure_type, difficulty>>,
                                 PyNone, "ValueError")
           ELSE /\ puzzle' = generate_puzzle(data_structure_type, difficulty)
                /\ ret' = Called("generate_puzzle", <<data_structure_type, difficulty>>,
                                 PyNone, "")
        /\ UNCHANGED OtherThanPuzzle

AddStep ==
    \E step \in StepPool :
        /\ Len(puzzle.steps) < MaxSteps
        /\ puzzle' = add_step(puzzle, step)
        /\ ret' = Called("add_step", <<step>>, PyNone, "")
        /\ UNCHANGED OtherThanPuzzle

CheckSolution ==
    \E user_input \in UserInputs :
        /\ Len(puzzle.data_structure.operations) < MaxOps
        /\ LET call == check_solution(puzzle, user_input)
           IN  /\ puzzle' = call.obj
               /\ ret' = Called("check_solution", <<user_input>>, call.val, call.raised)
        /\ UNCHANGED OtherThanPuzzle

GetCurrentStep ==
    /\ ret' = Called("get_current_step", <<>>,
                     IF HasCurrentStep(puzzle) THEN <<get_current_step(puzzle)>> ELSE <<>>,
                     "")
    /\ UNCHANGED <<puzzle, ss, ds, lm, save_file, game, event_queue, ui>>

GetHint ==
    /\ ret' = Called("get_hint", <<>>, get_hint(puzzle), "")
    /\ UNCHANGED <<puzzle, ss, ds, lm, save_file, game, event_queue, ui>>

Reset ==
    /\ puzzle' = Puzzle_reset(puzzle)
    /\ ret' = Called("reset", <<>>, PyNone, "")
    /\ UNCHANGED OtherThanPuzzle

Init ==
    /\ \E data_structure_type \in DataStructureTypes :
           puzzle = Puzzle(data_structure_type)
    /\ ret = NoCall
    /\ game = Absent
    /\ event_queue = Absent
    /\ ui = Absent
    /\ ss = Absent
    /\ ds = Absent
    /\ lm = Absent
    /\ save_file = Absent

Next ==
    \/ GeneratePuzzle
    \/ AddStep
    \/ CheckSolution
    \/ GetCurrentStep
    \/ GetHint
    \/ Reset

\* Any calls on a Puzzle of any of the five structures.
Spec == Init /\ [][Next]_vars

(***************************************************************************)
(* The calls on a data structure used directly.                            *)
(***************************************************************************)

MaxLog == 4
MaxSize == 3

Items == {"5", "10"}
Positions == {"0", "1", "2"}
Vertices == {"A", "B"}

OtherThanStructure == <<ss, puzzle, lm, save_file, game, event_queue, ui>>

\* A call on ds with the outcome `call`.
Does(op, args, call) ==
    /\ ds' = call.obj
    /\ ret' = Called(op, args, call.val, call.raised)
    /\ UNCHANGED OtherThanStructure

CanLog == Len(ds.operations) < MaxLog

Push ==
    \E item \in Items :
        /\ ds.name = "Stack" /\ CanLog
        /\ Does("push", <<item>>, Stack_push(ds, item))

Pop == ds.name = "Stack" /\ CanLog /\ Does("pop", <<>>, Stack_pop(ds))

Peek == ds.name = "Stack" /\ Does("peek", <<>>, Stack_peek(ds))

Enqueue ==
    \E item \in Items :
        /\ ds.name = "Queue" /\ CanLog
        /\ Does("enqueue", <<item>>, Queue_enqueue(ds, item))

Dequeue == ds.name = "Queue" /\ CanLog /\ Does("dequeue", <<>>, Queue_dequeue(ds))

ListInsert ==
    \E value \in Items, position \in Positions :
        /\ ds.name = "Linked List" /\ CanLog /\ Len(ds.head) < MaxSize
        /\ Does("insert", <<value, position>>, LinkedList_insert(ds, value, position))

ListDelete ==
    \E value \in Items :
        /\ ds.name = "Linked List" /\ CanLog
        /\ Does("delete", <<value>>, LinkedList_delete(ds, value))

TreeInsert ==
    \E value \in Items :
        /\ ds.name = "Binary Tree" /\ CanLog /\ Cardinality(DOMAIN ds.root) < MaxSize
        /\ Does("insert", <<value>>, BinaryTree_insert(ds, value))

AddVertex ==
    \E vertex \in Vertices :
        /\ ds.name = "Graph"
        /\ Does("add_vertex", <<vertex>>, Graph_add_vertex(ds, vertex))

AddEdge ==
    \E vertex1 \in Vertices, vertex2 \in Vertices :
        /\ ds.name = "Graph" /\ CanLog
        /\ Does("add_edge", <<vertex1, vertex2>>, Graph_add_edge(ds, vertex1, vertex2))

Bfs ==
    \E start_vertex \in Vertices :
        /\ ds.name = "Graph" /\ CanLog
        /\ Does("bfs", <<start_vertex>>, Graph_bfs(ds, start_vertex))

StructureReset ==
    /\ ds' = reset(ds)
    /\ ret' = Called("reset", <<>>, PyNone, "")
    /\ UNCHANGED OtherThanStructure

InitStructure ==
    /\ \E data_structure_type \in DataStructureTypes :
           ds = initialize_structure(data_structure_type)
    /\ ret = NoCall
    /\ game = Absent
    /\ event_queue = Absent
    /\ ui = Absent
    /\ ss = Absent
    /\ puzzle = Absent
    /\ lm = Absent
    /\ save_file = Absent

NextStructure ==
    \/ Push
    \/ Pop
    \/ Peek
    \/ Enqueue
    \/ Dequeue
    \/ ListInsert
    \/ ListDelete
    \/ TreeInsert
    \/ AddVertex
    \/ AddEdge
    \/ Bfs
    \/ StructureReset

\* Any calls on a Stack, a Queue, a LinkedList, a BinaryTree or a Graph.
SpecStructure == InitStructure /\ [][NextStructure]_vars

(***************************************************************************)
(* The calls on a LevelManager, and what happens to the save file.         *)
(***************************************************************************)

MaxAttempts == 1

\* The ids start_level is called with: a level with a Stack puzzle, one it
\* unlocks, one whose puzzle cannot be generated, and one that is not loaded
\* (_add_level skips level 8).
StartIds == {1, 2, 5, 8}
Scores == {60, 90}

OtherThanLevels == <<ss, puzzle, ds, game, event_queue, ui>>

StartLevel ==
    \E level_id \in StartIds :
        /\ level_id \in DOMAIN lm.levels => lm.levels[level_id].attempts < MaxAttempts
        /\ LET call == start_level(lm, level_id)
           IN  /\ lm' = call.obj
               /\ ret' = Called("start_level", <<level_id>>, call.val, call.raised)
        /\ UNCHANGED <<save_file, ss, puzzle, ds, game, event_queue, ui>>

CompleteLevel ==
    \E score \in Scores, writable \in BOOLEAN :
        LET call == complete_level(lm, save_file, score, writable)
        IN  /\ lm' = call.obj
            /\ save_file' = call.file
            /\ ret' = Called("complete_level", <<score>>, call.val, "")
            /\ UNCHANGED OtherThanLevels

SaveProgress ==
    \E writable \in BOOLEAN :
        /\ save_file' = save_progress(lm, save_file, writable)
        /\ ret' = Called("save_progress", <<>>, PyNone, "")
        /\ UNCHANGED <<lm, ss, puzzle, ds, game, event_queue, ui>>

LoadProgress ==
    /\ lm' = load_progress(lm, save_file)
    /\ ret' = Called("load_progress", <<>>, PyNone, "")
    /\ UNCHANGED <<save_file, ss, puzzle, ds, game, event_queue, ui>>

GetAvailableLevels ==
    /\ ret' = Called("get_available_levels", <<>>, get_available_levels(lm), "")
    /\ UNCHANGED <<lm, save_file, ss, puzzle, ds, game, event_queue, ui>>

\* The save file is deleted, truncated or overwritten from outside the game.
SaveFileDamaged ==
    \E kind \in {"missing", "empty", "garbage"} :
        /\ save_file' = NoFile(kind)
        /\ UNCHANGED <<lm, ret, ss, puzzle, ds, game, event_queue, ui>>

InitLevels ==
    /\ lm = LevelManager
    /\ save_file = NoFile("missing")
    /\ ret = NoCall
    /\ game = Absent
    /\ event_queue = Absent
    /\ ui = Absent
    /\ ss = Absent
    /\ puzzle = Absent
    /\ ds = Absent

NextLevels ==
    \/ StartLevel
    \/ CompleteLevel
    \/ SaveProgress
    \/ LoadProgress
    \/ GetAvailableLevels
    \/ SaveFileDamaged

\* Any calls on the LevelManager of the default levels.
SpecLevels == InitLevels /\ [][NextLevels]_vars

NextLevel ==
    \/ StartLevel
    \/ CompleteLevel

\* Levels that are only started and completed: no progress is loaded.
SpecLevel == InitLevels /\ [][NextLevel]_vars

(***************************************************************************)
(* The run loop of the game shell and the events the player causes.        *)
(***************************************************************************)

MaxQueue == 2

\* The events posted: the window is closed, a key is pressed, the mouse is
\* clicked.
PygameEvents ==
    { Event("QUIT", PyNone),
      Event("KEYDOWN", "K_RETURN"),
      Event("KEYDOWN", "K_1"),
      Event("KEYDOWN", "K_2"),
      Event("KEYDOWN", "K_3"),
      Event("KEYDOWN", "K_ESCAPE"),
      Event("KEYDOWN", "K_p"),
      Event("MOUSEBUTTONDOWN", PyNone) }

OtherThanShell == <<ss, puzzle, ds, lm, save_file, ui>>

PostEvent ==
    \E event \in PygameEvents :
        /\ Len(event_queue) < MaxQueue
        /\ event_queue' = Append(event_queue, event)
        /\ UNCHANGED <<game, ret>>
        /\ UNCHANGED OtherThanShell

\* One turn of the loop of run(): handle_events fetches and handles the
\* queue; update and render change nothing of the Game.
HandleEvents ==
    /\ game.running
    /\ game' = handle_events(game, event_queue)
    /\ event_queue' = <<>>
    /\ ret' = Called("handle_events", <<>>, PyNone, "")
    /\ UNCHANGED OtherThanShell

InitShell ==
    /\ game = Game
    /\ event_queue = <<>>
    /\ ui = Absent
    /\ ret = NoCall
    /\ ss = Absent
    /\ puzzle = Absent
    /\ ds = Absent
    /\ lm = Absent
    /\ save_file = Absent

NextShell ==
    \/ PostEvent
    \/ HandleEvents

\* The game shell under any input events.
SpecShell == InitShell /\ [][NextShell]_vars

(***************************************************************************)
(* run(), call by call: ret names the call made last, and so the place in  *)
(* the loop.  handle_events, update, render and clock.tick follow each     *)
(* other; after tick the condition of the while is read and the loop       *)
(* starts its next turn or ends in pygame.quit() and sys.exit().           *)
(***************************************************************************)

\* while self.running: self.handle_events()
RunHandleEvents ==
    /\ ret.op \in {"", "tick"}
    /\ game.running
    /\ game' = handle_events(game, event_queue)
    /\ event_queue' = <<>>
    /\ ret' = Called("handle_events", <<>>, PyNone, "")
    /\ UNCHANGED OtherThanShell

\* self.update(), which does nothing.
RunUpdate ==
    /\ ret.op = "handle_events"
    /\ ret' = Called("update", <<>>, PyNone, "")
    /\ UNCHANGED <<game, event_queue>>
    /\ UNCHANGED OtherThanShell

\* self.render(), which draws the screen of the state.
RunRender ==
    /\ ret.op = "update"
    /\ ret' = Called("render", <<>>, PyNone, "")
    /\ UNCHANGED <<game, event_queue>>
    /\ UNCHANGED OtherThanShell

\* self.clock.tick(FPS)
RunTick ==
    /\ ret.op = "render"
    /\ ret' = Called("tick", <<>>, PyNone, "")
    /\ UNCHANGED <<game, event_queue>>
    /\ UNCHANGED OtherThanShell

\* The loop has ended: pygame.quit() and sys.exit().
RunExit ==
    /\ ret.op \in {"", "tick"}
    /\ ~game.running
    /\ ret' = Called("sys.exit", <<>>, PyNone, "SystemExit")
    /\ UNCHANGED <<game, event_queue>>
    /\ UNCHANGED OtherThanShell

RunStep ==
    \/ RunHandleEvents
    \/ RunUpdate
    \/ RunRender
    \/ RunTick
    \/ RunExit

NextRun ==
    \/ PostEvent
    \/ RunStep

\* run() under any input events; the calls of run() return, so run() goes
\* on as long as it has a next call to make.
SpecRun == InitShell /\ [][NextRun]_vars /\ WF_vars(RunStep)

(***************************************************************************)
(* The construction of a LevelManager over a levels directory.             *)
(***************************************************************************)

MaxRecords == 3

\* The records of the level files: well-formed ones (two of them with the
\* same level_id, one without the optional keys), and records that from_dict
\* cannot turn into a Level.
LevelRecords ==
    { LevelData(1, "Stack Basics", "", "tutorial", 1, "Stack", 0, <<2, 3>>),
      LevelData(1, "Stack Again", "", "practice", 2, "Stack", 70, <<>>),
      [level_id |-> 2, title |-> "Queue Basics", description |-> "",
       category |-> "tutorial", difficulty |-> 1, data_structure |-> "Queue"],
      [level_id |-> 3, title |-> "No Category", description |-> "",
       difficulty |-> 1, data_structure |-> "Stack"],
      LevelData(4, "Boss", "", "boss", 1, "Stack", 0, <<>>),
      LevelData(8, "Advanced Challenges", "", "expert", 5, "Stack", 200, <<>>),
      LevelData(5, "Heaps", "", "practice", 2, "Heap", 0, <<>>) }

RECURSIVE RecordLists(_)
RecordLists(n) ==
    IF n = 0 THEN {<<>>}
    ELSE LET shorter == RecordLists(n - 1)
         IN  shorter \cup { Append(records, record) :
                                records \in shorter, record \in LevelRecords }

LoadLevels ==
    \E records \in RecordLists(MaxRecords) :
        /\ ret = NoCall
        /\ lm' = load_levels(lm, records)
        /\ ret' = Called("_load_levels", <<records>>, PyNone, "")
        /\ UNCHANGED <<save_file, ss, puzzle, ds, game, event_queue, ui>>

InitLoad ==
    /\ lm = NewLevelManager
    /\ save_file = NoFile("missing")
    /\ ret = NoCall
    /\ ss = Absent
    /\ puzzle = Absent
    /\ ds = Absent
    /\ game = Absent
    /\ event_queue = Absent
    /\ ui = Absent

NextLoad == LoadLevels

\* The construction of a LevelManager over any level files.
SpecLoad == InitLoad /\ [][NextLoad]_vars

(***************************************************************************)
(* The calls on a BinaryTree, for trees of three levels.                   *)
(***************************************************************************)

MaxNodes == 6

TreeGrow ==
    \E value \in Items :
        /\ Cardinality(DOMAIN ds.root) < MaxNodes
        /\ LET call == BinaryTree_insert(ds, value)
           IN  /\ ds' = call.obj
               /\ ret' = Called("insert", <<value>>, call.val, call.raised)
        /\ UNCHANGED OtherThanStructure

InitTree ==
    /\ ds = BinaryTree
    /\ ret = NoCall
    /\ ss = Absent
    /\ puzzle = Absent
    /\ lm = Absent
    /\ save_file = Absent
    /\ game = Absent
    /\ event_queue = Absent
    /\ ui = Absent

NextTree ==
    \/ TreeGrow
    \/ StructureReset

\* Any inserts into a BinaryTree, and resets.
SpecTree == InitTree /\ [][NextTree]_vars

(***************************************************************************)
(* The calls on a Graph of up to four vertices.                            *)
(***************************************************************************)

MaxGraphLog == 4

\* The vertices, added in this order, and the edges asked for: a square with
\* one diagonal and a loop.
GraphVertices == <<"A", "B", "C", "D">>
GraphEdges ==
    { <<"A", "B">>, <<"A", "C">>, <<"B", "D">>, <<"D", "C">>, <<"C", "B">>, <<"A", "A">> }

GraphAddVertex ==
    /\ Len(ds.adjacency_list) < Len(GraphVertices)
    /\ LET vertex == GraphVertices[Len(ds.adjacency_list) + 1]
           call == Graph_add_vertex(ds, vertex)
       IN  /\ ds' = call.obj
           /\ ret' = Called("add_vertex", <<vertex>>, call.val, call.raised)
    /\ UNCHANGED OtherThanStructure

GraphAddEdge ==
    \E edge \in GraphEdges :
        /\ Len(ds.operations) < MaxGraphLog
        /\ LET call == Graph_add_edge(ds, edge[1], edge[2])
           IN  /\ ds' = call.obj
               /\ ret' = Called("add_edge", edge, call.val, call.raised)
        /\ UNCHANGED OtherThanStructure

GraphBfs ==
    \E i \in 1..Len(GraphVertices) :
        /\ Len(ds.operations) < MaxGraphLog
        /\ LET call == Graph_bfs(ds, GraphVertices[i])
           IN  /\ ds' = call.obj
               /\ ret' = Called("bfs", <<GraphVertices[i]>>, call.val, call.raised)
        /\ UNCHANGED OtherThanStructure

InitGraph ==
    /\ ds = Graph
    /\ ret = NoCall
    /\ ss = Absent
    /\ puzzle = Absent
    /\ lm = Absent
    /\ save_file = Absent
    /\ game = Absent
    /\ event_queue = Absent
    /\ ui = Absent

NextGraph ==
    \/ GraphAddVertex
    \/ GraphAddEdge
    \/ GraphBfs

\* Graphs built by add_vertex and add_edge, and their traversals.
SpecGraph == InitGraph /\ [][NextGraph]_vars

(***************************************************************************)
(* The calls on the puzzles PuzzleSolver generates.                        *)
(***************************************************************************)

\* A puzzle as generate_puzzle returned it for a Stack or a Queue.
InitSolve ==
    /\ \E data_structure_type \in {"Stack", "Queue"}, difficulty \in Difficulties :
           /\ puzzle = generate_puzzle(data_structure_type, difficulty)
           /\ ret = Called("generate_puzzle", <<data_structure_type, difficulty>>, PyNone, "")
    /\ ss = Absent
    /\ ds = Absent
    /\ lm = Absent
    /\ save_file = Absent
    /\ game = Absent
    /\ event_queue = Absent
    /\ ui = Absent

NextSolve ==
    \/ GeneratePuzzle
    \/ CheckSolution
    \/ GetCurrentStep
    \/ GetHint
    \/ Reset

\* Generated puzzles, played, reset and generated anew.
SpecSolve == InitSolve /\ [][NextSolve]_vars

(***************************************************************************)
(* The calls that build a widget tree out of three components.             *)
(***************************************************************************)

WidgetNames == {"p", "q", "k"}

\* The components that are given children.
WidgetParents == {"p", "q"}

OtherThanWidgets == <<ss, puzzle, ds, lm, save_file, game, event_queue>>

AddChild ==
    \E self \in WidgetParents, child \in WidgetNames :
        /\ ui' = add_child([ui EXCEPT !.dispatched = <<>>], self, child)
        /\ ret' = Called("add_child", <<self, child>>, PyNone, "")
        /\ UNCHANGED OtherThanWidgets

RemoveChild ==
    \E self \in WidgetParents, child \in WidgetNames :
        LET call == remove_child([ui EXCEPT !.dispatched = <<>>], self, child)
        IN  /\ ui' = call.obj
            /\ ret' = Called("remove_child", <<self, child>>, call.val, "")
            /\ UNCHANGED OtherThanWidgets

GetAbsolutePosition ==
    \E self \in WidgetNames :
        LET call == get_absolute_position([ui EXCEPT !.dispatched = <<>>], self)
        IN  /\ ui' = call.obj
            /\ ret' = Called("get_absolute_position", <<self>>, call.val, call.raised)
            /\ UNCHANGED OtherThanWidgets

\* Three components made without a parent.
InitWidgets ==
    /\ ui = [comp |-> [name \in WidgetNames |-> UIComponent("UIComponent", 1, 0, 2, 1)],
             dispatched |-> <<>>]
    /\ ret = NoCall
    /\ ss = Absent
    /\ puzzle = Absent
    /\ ds = Absent
    /\ lm = Absent
    /\ save_file = Absent
    /\ game = Absent
    /\ event_queue = Absent

NextWidgets ==
    \/ AddChild
    \/ RemoveChild
    \/ GetAbsolutePosition

\* Any add_child and remove_child calls among three components.
SpecWidgets == InitWidgets /\ [][NextWidgets]_vars

(***************************************************************************)
(* A form: two plain components and two input fields in one parent, given  *)
(* the focus by set_focus and by the mouse.                                *)
(***************************************************************************)

\* The form is four cells wide and one high, a child in each cell.
FormChildren == <<"f", "g", "a", "b">>
FormNames == {"form", "a", "b", "f", "g"}

\* The components as constructed, each child in the cell of its place in
\* FormChildren, and then form.add_child(child) for each of them.
FormParts ==
    [name \in FormNames |->
        IF name = "form" THEN UIComponent("UIComponent", 0, 0, 4, 1)
        ELSE UIComponent(IF name \in {"f", "g"} THEN "InputField" ELSE "UIComponent",
                         (CHOOSE i \in 1..4 : FormChildren[i] = name) - 1, 0, 1, 1)]

RECURSIVE add_children(_, _, _)
add_children(u, self, children) ==
    IF children = <<>> THEN u
    ELSE add_children(add_child(u, self, Head(children)), self, Tail(children))

Form == add_children([comp |-> FormParts, dispatched |-> <<>>], "form", FormChildren)

\* The positions of the mouse: in each cell of the form.
FormPoints == { <<x, 0>> : x \in 0..3 }

MouseEvents ==
    { MouseEvent("MOUSEMOTION", 0), MouseEvent("MOUSEBUTTONDOWN", 1),
      MouseEvent("MOUSEBUTTONDOWN", 3), MouseEvent("MOUSEBUTTONUP", 1) }

OtherThanUi == <<ss, puzzle, ds, lm, save_file, game, event_queue>>

SetFocus ==
    \E self \in FormNames \ {"form"}, focused \in BOOLEAN :
        LET call == set_focus([ui EXCEPT !.dispatched = <<>>], self, focused)
        IN  /\ ui' = call.obj
            /\ ret' = Called("set_focus", <<self, focused>>, call.val, call.raised)
            /\ UNCHANGED OtherThanUi

\* The screen passes a mouse event to the form.
FormHandleEvent ==
    \E event \in MouseEvents, mouse_pos \in FormPoints :
        LET call == call_handle_event([ui EXCEPT !.dispatched = <<>>], "form",
                                      event, mouse_pos)
        IN  /\ ui' = call.obj
            /\ ret' = Called("handle_event", <<"form", event, mouse_pos>>,
                             call.val, call.raised)
            /\ UNCHANGED OtherThanUi

InitFocus ==
    /\ ui = Form
    /\ ret = NoCall
    /\ ss = Absent
    /\ puzzle = Absent
    /\ ds = Absent
    /\ lm = Absent
    /\ save_file = Absent
    /\ game = Absent
    /\ event_queue = Absent

NextFocus ==
    \/ SetFocus
    \/ FormHandleEvent

\* Any set_focus calls and mouse events on the form.
SpecFocus == InitFocus /\ [][NextFocus]_vars

(***************************************************************************)
(* A stage: two plain components that overlap, one of them with a child,   *)
(* shown, hidden, enabled, disabled, put in front of each other and        *)
(* passed mouse events.                                                    *)
(***************************************************************************)

StageNames == {"stage", "back", "front", "inner"}

\* The stage is three cells wide: back covers the cells 0 and 1, front the
\* cells 1 and 2, and inner, the child of back, the cell 1.
StageParts ==
    [name \in StageNames |->
        CASE name = "stage" -> UIComponent("UIComponent", 0, 0, 3, 1)
          [] name = "back" -> UIComponent("UIComponent", 0, 0, 2, 1)
          [] name = "front" -> UIComponent("UIComponent", 1, 0, 2, 1)
          [] name = "inner" -> UIComponent("UIComponent", 1, 0, 1, 1)]

Stage ==
    add_child(add_children([comp |-> StageParts, dispatched |-> <<>>],
                           "stage", <<"back", "front">>),
              "back", "inner")

StagePoints == { <<x, 0>> : x \in 0..2 }

\* The values z_index is assigned.
ZIndexes == {0, 1}

\* show() and hide().
SetVisible ==
    \E self \in {"back", "front"}, visible \in BOOLEAN :
        /\ ui' = [ui EXCEPT !.comp[self].visible = visible, !.dispatched = <<>>]
        /\ ret' = Called(IF visible THEN "show" ELSE "hide", <<self>>, PyNone, "")
        /\ UNCHANGED OtherThanUi

\* enable() and disable().
SetEnabled ==
    \E self \in {"back"}, enabled \in BOOLEAN :
        /\ ui' = [ui EXCEPT !.comp[self].enabled = enabled, !.dispatched = <<>>]
        /\ ret' = Called(IF enabled THEN "enable" ELSE "disable", <<self>>, PyNone, "")
        /\ UNCHANGED OtherThanUi

\* component.z_index = z_index.
SetZIndex ==
    \E self \in {"back", "front"}, z_index \in ZIndexes :
        /\ ui' = [ui EXCEPT !.comp[self].z_index = z_index, !.dispatched = <<>>]
        /\ ret' = Called("z_index", <<self, z_index>>, PyNone, "")
        /\ UNCHANGED OtherThanUi

\* A mouse event is passed to the stage, or to back by itself.
StageHandleEvent ==
    \E self \in {"stage", "back"}, event \in MouseEvents, mouse_pos \in StagePoints :
        LET call == call_handle_event([ui EXCEPT !.dispatched = <<>>], self,
                                      event, mouse_pos)
        IN  /\ ui' = call.obj
            /\ ret' = Called("handle_event", <<self, event, mouse_pos>>,
                             call.val, call.raised)
            /\ UNCHANGED OtherThanUi

InitEvents ==
    /\ ui = Stage
    /\ ret = NoCall
    /\ ss = Absent
    /\ puzzle = Absent
    /\ ds = Absent
    /\ lm = Absent
    /\ save_file = Absent
    /\ game = Absent
    /\ event_queue = Absent

NextEvents ==
    \/ SetVisible
    \/ SetEnabled
    \/ SetZIndex
    \/ StageHandleEvent

\* Any mouse events on the stage, whatever is shown, enabled and in front.
SpecEvents == InitEvents /\ [][NextEvents]_vars

(***************************************************************************)
(* Properties of the scoring system.                                       *)
(***************************************************************************)

\* The events of add_score calls are those with an empty message.
IsScoreEvent(event) == event.message = ""

\* C2: the score is never negative, whatever add_score, add_bonus,
\* add_time_penalty and complete calls were made; after the complete() call
\* that applies a time penalty of more than 100 (a deduction of at least the
\* whole score) the score is 0.
C2_ScoreNonNegative ==
    /\ ss.score >= 0
    /\ (ss.completed /\ ss.time_penalty > 100) => ss.score = 0

\* C2's case: points were scored, and complete() deducted more than the score.
C2_Witness ==
    /\ ss.completed
    /\ ss.time_penalty > 100
    /\ ss.score = 0
    /\ \E i \in 1..Len(ss.events) : IsScoreEvent(ss.events[i])
    /\ Last(ss.events).message = "Time penalty" /\ Last(ss.events).points < 0

RECURSIVE ComboOf(_, _)
ComboOf(events, run) ==
    IF events = <<>> THEN run
    ELSE ComboOf(Tail(events),
                 IF ~IsScoreEvent(Head(events)) THEN run
                 ELSE IF Head(events).modifier = "POOR" THEN 0
                 ELSE run + 1)

\* The largest combo after any prefix of the events.
MaxComboOf(events) ==
    LET runs == {ComboOf(SubSeq(events, 1, n), 0) : n \in 0..Len(events)}
    IN  CHOOSE m \in runs : \A r \in runs : r <= m

\* C9: while the system is not completed, combo is the number of add_score
\* calls with a modifier other than POOR since the last POOR one, max_combo
\* is the largest combo there has been (so max_combo >= combo), and perfect
\* is False exactly when a POOR call was made; the events of add_bonus do not
\* count, and add_time_penalty adds no event.
C9_ComboCounts ==
    ~ss.completed =>
        /\ ss.combo = ComboOf(ss.events, 0)
        /\ ss.max_combo = MaxComboOf(ss.events)
        /\ ss.max_combo >= ss.combo
        /\ ss.perfect = ~(\E i \in 1..Len(ss.events) :
                             IsScoreEvent(ss.events[i]) /\ ss.events[i].modifier = "POOR")

\* C9's case: a combo of two, a POOR call, one more call, then a bonus and a
\* time penalty.
C9_Witness ==
    /\ ~ss.completed /\ ~ss.perfect
    /\ ss.combo = 1 /\ ss.max_combo = 2
    /\ ss.time_penalty > 0
    /\ ret.op = "add_time_penalty"

BonusEvents(events) == {i \in 1..Len(events) : events[i].message = "Bonus"}

\* C10: the first complete() call awards every bonus whose condition holds:
\* 2 * base_points under half the time limit with perfect, else the time
\* bonus under the time limit, and max_combo * 10 from a max_combo of 5; each
\* one is added to bonus_points and appends a bonus event.
C10_BonusesAwarded ==
    [][(~ss.completed /\ ss'.completed) =>
          LET time_taken == ret'.args[1]
              time_part == IF 2 * time_taken < time_limit /\ ss.perfect
                           THEN 2 * base_points
                           ELSE IF time_taken < time_limit THEN time_bonus(time_taken)
                           ELSE 0
              combo_part == IF ss.max_combo >= 5 THEN ss.max_combo * 10 ELSE 0
              awarded == (IF time_part > 0 THEN 1 ELSE 0) + (IF combo_part > 0 THEN 1 ELSE 0)
          IN  /\ ss'.bonus_points = ss.bonus_points + time_part + combo_part
              /\ Cardinality(BonusEvents(ss'.events))
                     = Cardinality(BonusEvents(ss.events)) + awarded]_vars

(***************************************************************************)
(* Properties of the puzzle.                                               *)
(***************************************************************************)

\* C1, as claimed: under check_solution, get_hint, get_current_step and
\* reset, current_step never decreases, grows by at most 1 per call, never
\* exceeds len(steps), and no longer changes once it equals len(steps).
C1_NeverDecreases ==
    [][ret'.op \in {"check_solution", "get_hint", "get_current_step", "reset"} =>
          /\ puzzle'.current_step >= puzzle.current_step
          /\ puzzle'.current_step <= puzzle.current_step + 1
          /\ puzzle'.current_step <= Len(puzzle'.steps)
          /\ puzzle.current_step = Len(puzzle.steps) =>
                puzzle'.current_step = puzzle.current_step]_vars

\* C1, amended: under check_solution, get_hint and get_current_step,
\* current_step never decreases, grows by at most 1 per call, and no longer
\* changes once it equals len(steps); reset sets it to 0; it never exceeds
\* len(steps) after any call.
C1_MonotoneUntilReset ==
    [][/\ puzzle'.current_step <= Len(puzzle'.steps)
       /\ ret'.op \in {"check_solution", "get_hint", "get_current_step"} =>
             /\ puzzle'.current_step >= puzzle.current_step
             /\ puzzle'.current_step <= puzzle.current_step + 1
             /\ puzzle.current_step = Len(puzzle.steps) =>
                   puzzle'.current_step = puzzle.current_step
       /\ ret'.op = "reset" => puzzle'.current_step = 0]_vars

\* C1's case: every step of a three-step puzzle was passed, and a further
\* check_solution left current_step at len(steps).
C1_Witness ==
    /\ Len(puzzle.steps) = 3
    /\ puzzle.current_step = 3
    /\ puzzle.solved
    /\ ret.op = "check_solution" /\ ret.val = PyFalse

\* The step a successful check_solution has just passed.
PassedStep == puzzle.steps[puzzle.current_step]

\* C4: check_solution(user_input) returns True (and advances) only when
\* user_input reproduces the operation, the parameters and the result of the
\* step; for any other input it returns False.
C4_InputDecides ==
    (ret.op = "check_solution" /\ ret.val = PyTrue) =>
        /\ ret.args[1].operation = PassedStep.operation
        /\ ret.args[1].parameters = PassedStep.parameters
        /\ ret.args[1].result = PassedStep.expected_result

\* The operation of the current step cannot be carried out: the structure has
\* no such method, or the call raises.
StepFails(p) ==
    /\ HasCurrentStep(p)
    /\ LET method == OperationValue(get_current_step(p).operation)
       IN  \/ ~HasMethod(p.data_structure, method)
           \/ Invoke(p.data_structure, method, get_current_step(p).parameters).raised # ""

\* C5: when the operation of the current step raises, or the structure has
\* no method of that name, check_solution raises nothing and returns False,
\* and current_step and solved are as before.
C5_ExceptionIsIncorrect ==
    [][(ret'.op = "check_solution" /\ StepFails(puzzle)) =>
          /\ ret'.raised = ""
          /\ ret'.val = PyFalse
          /\ puzzle'.current_step = puzzle.current_step
          /\ puzzle'.solved = puzzle.solved]_vars

\* C5's case: after a first step was passed, check_solution returned False on
\* a step whose call raises TypeError.
C5_Witness ==
    /\ ret.op = "check_solution" /\ ret.val = PyFalse
    /\ puzzle.current_step >= 1
    /\ HasCurrentStep(puzzle)
    /\ HasMethod(puzzle.data_structure, OperationValue(get_current_step(puzzle).operation))
    /\ Invoke(puzzle.data_structure, OperationValue(get_current_step(puzzle).operation),
              get_current_step(puzzle).parameters).raised = "TypeError"

(***************************************************************************)
(* Properties of the data structures.                                      *)
(***************************************************************************)

\* C6: no operation of a data structure raises, whatever its arguments; a
\* value or a vertex that is not found shows in the value returned only.
C6_NoOperationRaises == ret.raised = ""

\* C7: Stack.pop on an empty stack and Queue.dequeue on an empty queue return
\* None and change neither the elements nor the operations log.
C7_EmptyPopReturnsNone ==
    [][(ret'.op \in {"pop", "dequeue"} /\ ds.elements = <<>>) =>
          /\ ret'.val = PyNone
          /\ ret'.raised = ""
          /\ ds'.elements = ds.elements
          /\ ds'.operations = ds.operations]_vars

\* C7's case: a stack that was pushed to and popped empty is popped again.
C7_Witness ==
    /\ ds.name = "Stack"
    /\ ret.op = "pop" /\ ret.val = PyNone
    /\ ds.elements = <<>>
    /\ Len(ds.operations) = 2 /\ Last(ds.operations)[1] = "POP"

(***************************************************************************)
(* Properties of the level manager.                                        *)
(***************************************************************************)

\* C3: once a level is completed, every loaded level whose id is in its
\* unlocks list is among get_available_levels().
C3_UnlockedAreAvailable ==
    \A id \in DOMAIN lm.levels :
        lm.levels[id].completed =>
            \A i \in 1..Len(lm.levels[id].unlocks) :
                lm.levels[id].unlocks[i] \in DOMAIN lm.levels =>
                    lm.levels[id].unlocks[i] \in get_available_levels(lm)

(***************************************************************************)
(* Properties of the game shell.                                           *)
(***************************************************************************)

\* The Game objects that some sequence of input events leads to from the
\* Game objects of `from`.
RECURSIVE GamesAfterEvents(_)
GamesAfterEvents(from) ==
    LET more == from \cup { handle_event(g, event) : g \in from, event \in PygameEvents }
    IN  IF more = from THEN from ELSE GamesAfterEvents(more)

\* Those of them that are in the given state of the shell.
GamesIn(from, state) == { g \in GamesAfterEvents(from) : g.state = state }

\* C11: from AUTHENTICATION there is a sequence of input events that reaches
\* MAIN_MENU, then DATA_STRUCTURE_SELECT, then GAMEPLAY, and from GAMEPLAY
\* reaches PAUSE and GAME_OVER.
C11_ShellProgresses ==
    game.state = "AUTHENTICATION" =>
        LET menu == GamesIn({game}, "MAIN_MENU")
            select == GamesIn(menu, "DATA_STRUCTURE_SELECT")
            gameplay == GamesIn(select, "GAMEPLAY")
        IN  /\ menu # {}
            /\ select # {}
            /\ gameplay # {}
            /\ GamesIn(gameplay, "PAUSE") # {}
            /\ GamesIn(gameplay, "GAME_OVER") # {}

\* The states the shell is ever in.
C11_ShellStates ==
    game.state \in {"AUTHENTICATION", "MAIN_MENU", "DATA_STRUCTURE_SELECT"}

(***************************************************************************)
(* Properties of loading the levels and the progress.                      *)
(***************************************************************************)

\* No progress: no current level, no level completed, scored or attempted.
ProgressIsReset(m) ==
    /\ m.current_level_id = NoLevel
    /\ \A id \in DOMAIN m.levels :
           /\ ~m.levels[id].completed
           /\ m.levels[id].high_score = 0
           /\ m.levels[id].attempts = 0

\* A step that leaves ret.op and the save file as they are is a call of the
\* operation ret.op names, or changes nothing: only a change of the save file
\* from outside leaves ret alone.

\* C12: when the save file does not exist, load_progress resets the
\* progress, whatever the progress in memory was: afterwards current_level_id
\* is None and every level has completed False, high_score 0 and attempts 0.
C12_MissingFileResets ==
    [][(ret'.op = "load_progress" /\ save_file' = save_file /\ save_file.kind = "missing")
           => ProgressIsReset(lm')]_vars

\* The positions of the records that from_dict can turn into a Level.
WellFormed(records) == {i \in 1..Len(records) : ~from_dict_raises(records[i])}

\* The records _load_levels has read: the default ones for an empty
\* directory.
RecordsRead == IF ret.args[1] = <<>> THEN default_levels ELSE ret.args[1]

\* C13, as stated: a level record that cannot be turned into a Level is
\* skipped without raising, and every well-formed record loaded in the same
\* run is registered in levels under its level_id.
C13_EveryRecordRegistered ==
    ret.op = "_load_levels" =>
        /\ ret.raised = ""
        /\ \A i \in WellFormed(RecordsRead) :
               /\ RecordsRead[i].level_id \in DOMAIN lm.levels
               /\ lm.levels[RecordsRead[i].level_id] = from_dict(RecordsRead[i])
        /\ DOMAIN lm.levels = {RecordsRead[i].level_id : i \in WellFormed(RecordsRead)}

\* C13, amended: a level record that cannot be turned into a Level is
\* skipped without raising, and every well-formed record loaded in the same
\* run is registered in levels under its level_id unless a well-formed
\* record read later has the same level_id and replaces it; nothing else is
\* registered.
C13_MalformedSkipped ==
    ret.op = "_load_levels" =>
        LET records == RecordsRead
        IN  /\ ret.raised = ""
            /\ \A i \in WellFormed(records) :
                   /\ records[i].level_id \in DOMAIN lm.levels
                   /\ \/ lm.levels[records[i].level_id] = from_dict(records[i])
                      \/ \E j \in WellFormed(records) :
                             j > i /\ records[j].level_id = records[i].level_id
            /\ DOMAIN lm.levels = {records[i].level_id : i \in WellFormed(records)}

\* A record without its category between two well-formed records.
C13_Witness ==
    /\ ret.op = "_load_levels"
    /\ Len(ret.args[1]) = 3
    /\ WellFormed(ret.args[1]) = {1, 3}
    /\ "category" \notin DOMAIN ret.args[1][2]
    /\ DOMAIN lm.levels = {1, 2}
    /\ lm.levels[2].required_score = 0

(***************************************************************************)
(* Properties of the data structures: logging and contents.                *)
(***************************************************************************)

\* The structure without its log of operations.
Contents(d) == [d EXCEPT !.operations = <<>>]

\* C14: a call of push, pop, enqueue, dequeue, insert, delete, add_vertex or
\* add_edge that changes the contents of the structure appends exactly one
\* entry to operations; one that fails or changes nothing, and peek, appends
\* none.
C14_OperationLogging ==
    [][ret'.op \in {"push", "pop", "peek", "enqueue", "dequeue", "insert", "delete",
                    "add_vertex", "add_edge"} =>
            IF Contents(ds') # Contents(ds)
            THEN /\ Len(ds'.operations) = Len(ds.operations) + 1
                 /\ SubSeq(ds'.operations, 1, Len(ds.operations)) = ds.operations
            ELSE ds'.operations = ds.operations]_vars

\* What a LIFO stack or a FIFO queue holds after the first n logged
\* operations, oldest item first: PUSH and ENQUEUE add an item at the end,
\* POP takes the newest item away, DEQUEUE the oldest.
RECURSIVE Remaining(_, _)
Remaining(operations, n) ==
    IF n = 0 THEN <<>>
    ELSE LET before == Remaining(operations, n - 1)
             kind == operations[n][1]
         IN  IF kind \in {"PUSH", "ENQUEUE"} THEN Append(before, operations[n][2])
             ELSE IF kind = "POP" THEN SubSeq(before, 1, Len(before) - 1)
             ELSE Tail(before)

\* The state part of C15, for a Stack or a Queue d and the last call.
LifoFifo(d, call) ==
    LET n == Len(d.operations)
        now == Remaining(d.operations, n)
    IN  /\ d.elements = now
        /\ call.op \in {"push", "enqueue"} =>
               /\ call.val = PyTrue
               /\ n > 0 /\ Last(now) = call.args[1]
        /\ call.op = "pop" =>
               IF call.val = PyNone THEN now = <<>>
               ELSE /\ n > 0 /\ Last(d.operations)[1] = "POP"
                    /\ call.val = Last(Remaining(d.operations, n - 1))
        /\ call.op = "dequeue" =>
               IF call.val = PyNone THEN now = <<>>
               ELSE /\ n > 0 /\ Last(d.operations)[1] = "DEQUEUE"
                    /\ call.val = Head(Remaining(d.operations, n - 1))
        /\ call.op = "peek" =>
               call.val = IF now = <<>> THEN PyNone ELSE Last(now)

\* C15: a Stack behaves as a LIFO sequence and a Queue as a FIFO sequence:
\* pop returns the most recently pushed element not yet popped, dequeue the
\* earliest enqueued element not yet dequeued, peek returns what pop would
\* return and changes nothing, and elements lists the remaining items in
\* insertion order.
C15_LifoFifo ==
    /\ [](ds.name \in {"Stack", "Queue"} => LifoFifo(ds, ret))
    /\ [][ret'.op = "peek" => ds' = ds]_vars

\* The second of two pops returns the item pushed first.
C15_Witness ==
    /\ ds.name = "Stack"
    /\ Len(ds.operations) = 4
    /\ ds.operations[1] = <<"PUSH", "5">> /\ ds.operations[2] = <<"PUSH", "10">>
    /\ ds.operations[3] = <<"POP", "10">>
    /\ ret.op = "pop" /\ ret.val = "5"
    /\ ds.elements = <<>>

\* The second of two dequeues returns the item enqueued second.
C15_WitnessQueue ==
    /\ ds.name = "Queue"
    /\ Len(ds.operations) = 4
    /\ ds.operations[1] = <<"ENQUEUE", "5">> /\ ds.operations[2] = <<"ENQUEUE", "10">>
    /\ ds.operations[3] = <<"DEQUEUE", "5">>
    /\ ret.op = "dequeue" /\ ret.val = "10"

\* The entries of a list that are not None, in order.
IsValue(v) == v # PyNone
NonNone(list) == SelectSeq(list, IsValue)

\* C16: BinaryTree.insert fills the tree in level order.  Every insert
\* returns True, and after inserting v1..vn into an empty tree (the tree has
\* as many nodes as operations has entries) the node at level-order position
\* i holds the i-th inserted value, so the tree is complete, and the entries
\* of elements that are not None are v1..vn in insertion order.
C16_LevelOrderFill ==
    ds.name = "Binary Tree" =>
        /\ ret.op = "insert" => ret.val = PyTrue
        /\ Cardinality(DOMAIN ds.root) = Len(ds.operations) =>
               LET n == Len(ds.operations)
               IN  /\ DOMAIN ds.root = 1..n
                   /\ \A i \in 1..n : ds.operations[i] = <<"INSERT", ds.root[i]>>
                   /\ NonNone(ds.elements) = [i \in 1..n |-> ds.operations[i][2]]
                   /\ n > 0 => Len(ds.elements) = 2 * n + 1

\* Six inserts: the sixth value is the left child of the third.
C16_Witness ==
    /\ ds.name = "Binary Tree"
    /\ ret.op = "insert" /\ ret.args = <<"10">>
    /\ Len(ds.operations) = 6
    /\ DOMAIN ds.root = 1..6
    /\ ds.root[5] = "5" /\ ds.root[6] = "10"
    /\ ds.elements[6] = "10" /\ ds.elements[7] = PyNone

\* The keys of the adjacency list.
VerticesOf(adjacency_list) ==
    {adjacency_list[i].vertex : i \in 1..Len(adjacency_list)}

\* The vertices within n edges of the vertices of `near`.
RECURSIVE Within(_, _, _)
Within(adjacency_list, near, n) ==
    IF n = 0 THEN near
    ELSE Within(adjacency_list,
                near \cup {v \in VerticesOf(adjacency_list) :
                              \E u \in near : InList(Neighbors(adjacency_list, u), v)},
                n - 1)

\* The vertices reachable from start_vertex, and the edge distance of one of
\* them.
Reachable(adjacency_list, start_vertex) ==
    Within(adjacency_list, {start_vertex}, Len(adjacency_list))

Distance(adjacency_list, start_vertex, v) ==
    CHOOSE n \in 0..Len(adjacency_list) :
        /\ v \in Within(adjacency_list, {start_vertex}, n)
        /\ n > 0 => v \notin Within(adjacency_list, {start_vertex}, n - 1)

\* C17: bfs(start_vertex) for a start vertex that is in the graph returns a
\* list that begins with the start vertex and holds every vertex reachable
\* from it exactly once and no other vertex, in non-decreasing order of edge
\* distance from it; it changes nothing but appends one TRAVERSE entry to
\* operations.
C17_BreadthFirst ==
    [][(ret'.op = "bfs" /\ HasVertex(ds.adjacency_list, ret'.args[1])) =>
          LET start_vertex == ret'.args[1]
              visited == ret'.val
              graph == ds.adjacency_list
          IN  /\ ret'.raised = ""
              /\ visited[1] = start_vertex
              /\ {visited[i] : i \in 1..Len(visited)} = Reachable(graph, start_vertex)
              /\ Len(visited) = Cardinality(Reachable(graph, start_vertex))
              /\ \A i, j \in 1..Len(visited) :
                     i < j => Distance(graph, start_vertex, visited[i])
                                  <= Distance(graph, start_vertex, visited[j])
              /\ Contents(ds') = Contents(ds)
              /\ ds'.operations =
                     Append(ds.operations, <<"TRAVERSE", <<"BFS", start_vertex>>>>)]_vars

\* A traversal that reaches D at distance 2 after B and C at distance 1.
C17_Witness ==
    /\ ds.name = "Graph"
    /\ ret.op = "bfs" /\ ret.args = <<"A">> /\ ret.raised = ""
    /\ ret.val = <<"A", "B", "C", "D">>
    /\ Len(ds.operations) = 4
    /\ ds.operations[1] = <<"INSERT", <<"A", "B">>>>
    /\ ds.operations[2] = <<"INSERT", <<"B", "D">>>>
    /\ ds.operations[3] = <<"INSERT", <<"A", "C">>>>

(***************************************************************************)
(* Properties of starting and unlocking levels.                            *)
(***************************************************************************)

\* C18: start_level(id) for an id in levels sets current_level_id to id,
\* increases the attempts of that level by exactly 1 and returns a Puzzle for
\* the data structure of the level; for an id that is not in levels it
\* returns None and changes neither current_level_id nor any level.
C18_StartLevel ==
    [][(ret'.op = "start_level" /\ save_file' = save_file) =>
          LET level_id == ret'.args[1]
          IN  IF level_id \in DOMAIN lm.levels
              THEN /\ ret'.raised = ""
                   /\ lm'.current_level_id = level_id
                   /\ lm'.levels[level_id].attempts = lm.levels[level_id].attempts + 1
                   /\ Len(ret'.val) = 1
                   /\ ret'.val[1].data_structure_type
                          = lm.levels[level_id].data_structure_type
              ELSE /\ ret'.raised = ""
                   /\ ret'.val = <<>>
                   /\ lm' = lm]_vars

\* C19: every puzzle generate_puzzle returns for a Stack or a Queue, at any
\* difficulty, can be solved: solved is True exactly when current_step has
\* reached len(steps), and as long as it is not solved some check_solution
\* call passes, so that repeated calls make solved True.
C19_GeneratedSolvable ==
    /\ puzzle.solved <=> puzzle.current_step = Len(puzzle.steps)
    /\ puzzle.solved \/ \E user_input \in UserInputs :
                            check_solution(puzzle, user_input).val = PyTrue

\* The puzzles of difficulty EASY are solved by three calls.
C19_EasySolved ==
    /\ puzzle.solved /\ puzzle.current_step = 3 /\ Len(puzzle.steps) = 3
    /\ ret.op = "check_solution" /\ ret.val = PyTrue

\* The manager after the player has started the level and completed it.
Played(m, level_id) ==
    complete_level(start_level(m, level_id).obj, NoFile("missing"), 90, FALSE).obj

\* The manager after the player has played every level of the list.
RECURSIVE PlayedAll(_, _)
PlayedAll(m, ids) ==
    IF ids = {} THEN m
    ELSE LET level_id == CHOOSE id \in ids : TRUE
         IN  PlayedAll(Played(m, level_id), ids \ {level_id})

\* The levels the player can make available by playing available levels:
\* completing a level never makes another one unavailable, so playing all
\* the available ones, again and again, reaches every level that can be
\* reached.
RECURSIVE AvailableByPlaying(_)
AvailableByPlaying(m) ==
    LET played == PlayedAll(m, get_available_levels(m))
    IN  IF get_available_levels(played) = get_available_levels(m)
        THEN get_available_levels(m)
        ELSE AvailableByPlaying(played)

\* C20: with the default levels, for each loaded level there is a sequence
\* of start_level and complete_level calls on available levels after which
\* the level is in get_available_levels().
C20_EveryLevelReachable ==
    DOMAIN lm.levels \subseteq AvailableByPlaying(lm)

\* From the start, whatever available level is played, no level but level 1
\* is ever available.
C20_OnlyFirstLevel ==
    lm = LevelManager => AvailableByPlaying(lm) = {1}

(***************************************************************************)
(* Properties of a puzzle: reset and failed checks.                        *)
(***************************************************************************)

\* A new puzzle of the type of p with the steps of p.
NewPuzzleLike(p) == add_steps(Puzzle(p.data_structure_type), p.steps)

\* C21: reset() returns the puzzle to its initial state: afterwards
\* current_step is 0, solved is False, the steps are unchanged and
\* data_structure is a fresh empty instance of the type of the puzzle.  The
\* puzzle then equals a new puzzle with the same steps, so any check_solution
\* calls give on it what they give on the new one.
C21_ResetIsInitial ==
    [][ret'.op = "reset" =>
          /\ puzzle'.current_step = 0
          /\ ~puzzle'.solved
          /\ puzzle'.steps = puzzle.steps
          /\ puzzle'.data_structure = initialize_structure(puzzle.data_structure_type)
          /\ puzzle' = NewPuzzleLike(puzzle)
          /\ \A user_input \in UserInputs :
                 check_solution(puzzle', user_input)
                     = check_solution(NewPuzzleLike(puzzle), user_input)]_vars

\* A linked-list puzzle reset after its insert had been checked.
C21_Witness ==
    /\ ret.op = "reset"
    /\ puzzle.data_structure_type = "LinkedList"
    /\ Len(puzzle.steps) = 2
    /\ puzzle.steps[1].operation = "INSERT"
    /\ puzzle.current_step = 0
    /\ puzzle.data_structure = LinkedList

\* C22: whenever check_solution returns False, nothing observable has
\* changed: current_step, solved, and the elements and the operations log of
\* the data structure are as they were before the call.
C22_FalseChangesNothing ==
    [][(ret'.op = "check_solution" /\ ret'.val = PyFalse) =>
          /\ puzzle'.current_step = puzzle.current_step
          /\ puzzle'.solved = puzzle.solved
          /\ puzzle'.data_structure.elements = puzzle.data_structure.elements
          /\ puzzle'.data_structure.operations = puzzle.data_structure.operations]_vars

(***************************************************************************)
(* Properties of the scoring system: completion and the multiplier.        *)
(***************************************************************************)

\* The fields a completed ScoreSystem keeps.
Frozen(s) ==
    <<s.score, s.combo, s.max_combo, s.multiplier, s.bonus_points, s.time_penalty,
      s.events>>

\* C23: once a ScoreSystem is completed it is frozen: add_score returns 0,
\* and add_score, add_bonus, add_time_penalty and a repeated complete() leave
\* score, combo, max_combo, multiplier, bonus_points, time_penalty and the
\* events unchanged.
C23_CompletedIsFrozen ==
    [][ss.completed =>
          /\ ss'.completed
          /\ Frozen(ss') = Frozen(ss)
          /\ ret'.op = "add_score" => ret'.val = 0
          /\ ret'.op = "complete" => ret'.val = get_results(ss)]_vars

\* add_score on a completed system that had scored and been given a penalty.
C23_Witness ==
    /\ ss.completed
    /\ ss.score > 0 /\ ss.time_penalty > 0 /\ Len(ss.events) >= 2
    /\ ret.op = "add_score" /\ ret.val = 0

\* add_time_penalty on a completed system.
C23_WitnessPenalty ==
    /\ ss.completed
    /\ ss.time_penalty = 75
    /\ ret.op = "add_time_penalty"

\* The multiplier that goes with a combo, in tenths.
MultiplierOf(combo) == IF combo >= 10 THEN 20 ELSE IF combo >= 5 THEN 15 ELSE 10

\* C24: the multiplier an add_score call applies is determined by the combo
\* at that call alone: 1.0 below 5, 1.5 from 5 to 9, 2.0 from 10; a POOR
\* event, which resets the combo to 0, and the events after it until the
\* combo is 5 again are scored with the multiplier 1.0.
C24_MultiplierFollowsCombo ==
    (ret.op = "add_score" /\ ~ss.completed) =>
        /\ ss.multiplier = MultiplierOf(ss.combo)
        /\ ret.val = PyInt(PyInt(ret.args[1] * ModifierValue(ret.args[2]), 10)
                               * MultiplierOf(ss.combo), 10)

(***************************************************************************)
(* Properties of the linked list, the tree and the graph.                  *)
(***************************************************************************)

\* A newly constructed structure of the class of d.
NewLike(d) ==
    CASE d.name = "Stack" -> Stack
      [] d.name = "Queue" -> Queue
      [] d.name = "Linked List" -> LinkedList
      [] d.name = "Binary Tree" -> BinaryTree
      [] d.name = "Graph" -> Graph

\* C25: for a LinkedList, a BinaryTree and a Graph, elements always mirrors
\* the underlying structure, reset() included: it is what _update_elements
\* computes from head, root or adjacency_list; and after reset() the
\* structure is empty, as a newly constructed one.
C25_ElementsMirror ==
    /\ ds.name = "Linked List" => ds.elements = LinkedList_update_elements(ds).elements
    /\ ds.name = "Binary Tree" => ds.elements = BinaryTree_update_elements(ds).elements
    /\ ds.name = "Graph" => ds.elements = Graph_update_elements(ds).elements
    /\ (ret.op = "reset" /\ ds.name \in {"Linked List", "Binary Tree", "Graph"})
           => ds = NewLike(ds)

\* adjacency_list[v] has no vertex twice.
NoRepeat(list) == \A i, j \in 1..Len(list) : list[i] = list[j] => i = j

\* C26: the adjacency lists of a Graph always describe a simple undirected
\* graph: v is in adjacency_list[u] exactly when u is in adjacency_list[v],
\* every neighbour is a vertex, and no adjacency list holds a vertex twice,
\* whatever add_vertex and add_edge calls were made (add_edge(v, v), repeated
\* and reversed edges included); a rejected add_edge returns False and
\* changes nothing.
C26_SimpleUndirected ==
    /\ [](ds.name = "Graph" =>
            LET graph == ds.adjacency_list
                V == {graph[i].vertex : i \in 1..Len(graph)}
            IN  \A u \in V :
                    /\ \A i \in 1..Len(Neighbors(graph, u)) :
                           /\ Neighbors(graph, u)[i] \in V
                           /\ InList(Neighbors(graph, Neighbors(graph, u)[i]), u)
                    /\ NoRepeat(Neighbors(graph, u)))
    /\ [][(ret'.op = "add_edge" /\ ret'.val = PyFalse) => ds' = ds]_vars

Min(a, b) == IF a <= b THEN a ELSE b

\* The list without its entry at index i.
Without(list, i) == SubSeq(list, 1, i - 1) \o SubSeq(list, i + 1, Len(list))

\* C27: LinkedList.insert(value, position) with position >= 0 on a list of
\* length n returns True and places value at index min(position, n), keeping
\* the order of the other elements; LinkedList.delete(value) removes the
\* first occurrence of value only and returns True, or returns False and
\* leaves the list unchanged when value is absent.  The list is the chain of
\* nodes from head; elements lists it after each of these calls.
C27_InsertDelete ==
    [][ds.name = "Linked List" =>
          /\ (ret'.op = "insert" /\ IntOf(ret'.args[2]) >= 0) =>
                 LET at == Min(IntOf(ret'.args[2]), Len(ds.head)) + 1
                 IN  /\ ret'.val = PyTrue /\ ret'.raised = ""
                     /\ Len(ds'.head) = Len(ds.head) + 1
                     /\ ds'.head[at] = ret'.args[1]
                     /\ Without(ds'.head, at) = ds.head
                     /\ ds'.elements = ds'.head
          /\ ret'.op = "delete" =>
                 IF InList(ds.head, ret'.args[1])
                 THEN LET first == CHOOSE i \in 1..Len(ds.head) :
                                       /\ ds.head[i] = ret'.args[1]
                                       /\ \A j \in 1..(i - 1) : ds.head[j] # ret'.args[1]
                      IN  /\ ret'.val = PyTrue
                          /\ ds'.head = Without(ds.head, first)
                          /\ ds'.elements = ds'.head
                 ELSE ret'.val = PyFalse /\ ds' = ds]_vars

\* An insert past the end of a list of two, which goes to the end.
C27_Witness ==
    /\ ds.name = "Linked List"
    /\ ret.op = "insert" /\ ret.args = <<"10", "2">>
    /\ ds.elements = <<"5", "5", "10">>
    /\ Len(ds.operations) = 3

\* A delete of a value that occurs twice.
C27_WitnessDelete ==
    /\ ds.name = "Linked List"
    /\ ret.op = "delete" /\ ret.args = <<"5">> /\ ret.val = PyTrue
    /\ ds.elements = <<"10", "5">>
    /\ Len(ds.operations) = 4

(***************************************************************************)
(* C28: over any sequence of Level.start and Level.complete(score) calls,  *)
(* high_score is the maximum of 0 and the scores completed so far and      *)
(* never decreases, completed never goes back to False, and attempts       *)
(* counts the start calls that succeeded.  Stated call by call: every      *)
(* level begins at high_score 0, completed False, attempts 0; a start that *)
(* returns adds one to the attempts of its level and a start that raises   *)
(* adds nothing; a complete sets completed and makes high_score the        *)
(* maximum of what it was and the score; no call changes another level.    *)
(***************************************************************************)
Progress(level) ==
    [completed |-> level.completed, high_score |-> level.high_score,
     attempts |-> level.attempts]

C28_WitnessRaised ==
    /\ ret.op = "start_level" /\ ret.args = <<5>> /\ ret.raised = "ValueError"
    /\ lm.current_level_id = 5
    /\ lm.levels[5].attempts = 0

(***************************************************************************)
(* C29: save and load are a round trip.  A save_progress that writes the   *)
(* file (alone or at the end of complete_level) stores current_level_id    *)
(* and, for every level, completed, high_score and attempts; a             *)
(* load_progress of such a file into a manager with the same level ids     *)
(* gives the manager exactly these values, whatever it held before; and a  *)
(* load_progress whose read raises leaves every level at completed False,  *)
(* high_score 0, attempts 0 and current_level_id None.                     *)
(*                                                                         *)
(* The file also changes from outside, which leaves ret alone: a call is   *)
(* told from such a step by the file it leaves unchanged (load) or by the  *)
(* kind of file it leaves (save).                                          *)
(***************************************************************************)
Holds(file, m) ==
    /\ file.kind = "data"
    /\ file.current_level_id = m.current_level_id
    /\ DOMAIN file.levels = DOMAIN m.levels
    /\ \A id \in DOMAIN m.levels : file.levels[id] = Progress(m.levels[id])

C29_SaveLoadRoundTrip ==
    [][/\ (ret'.op \in {"save_progress", "complete_level"}
               /\ save_file' # save_file /\ save_file'.kind = "data") =>
              Holds(save_file', lm')
       /\ (ret'.op = "load_progress" /\ save_file' = save_file) =>
              /\ (save_file.kind = "data"
                      /\ DOMAIN save_file.levels = DOMAIN lm.levels) =>
                     Holds(save_file, lm')
              /\ save_file.kind = "garbage" =>
                     /\ lm'.current_level_id = NoLevel
                     /\ DOMAIN lm'.levels = DOMAIN lm.levels
                     /\ \A id \in DOMAIN lm.levels :
                           Progress(lm'.levels[id]) =
                               [completed |-> FALSE, high_score |-> 0,
                                attempts |-> 0]]_vars

\* Level 1 was completed and saved, level 2 was started afterwards, and the
\* load took the manager back to what was saved: level 2 has its puzzle and
\* no attempt.
C29_Witness ==
    /\ ret.op = "load_progress"
    /\ save_file.kind = "data"
    /\ lm.current_level_id = 1
    /\ lm.levels[1].completed /\ lm.levels[1].high_score = 90
    /\ lm.levels[1].attempts = 1
    /\ lm.levels[2].puzzle # <<>> /\ lm.levels[2].attempts = 0

\* A load of an unreadable file after level 1 was started.
C29_WitnessReset ==
    /\ ret.op = "load_progress"
    /\ save_file.kind = "garbage"
    /\ lm.current_level_id = NoLevel
    /\ lm.levels[1].puzzle # <<>> /\ lm.levels[1].attempts = 0

(***************************************************************************)
(* C30: a LevelManager made over an empty levels directory registers all   *)
(* eight default levels: levels holds exactly the ids 1..8, and get_level  *)
(* returns a level for each of them.                                       *)
(***************************************************************************)
C30_EightDefaultLevels ==
    (ret.op = "_load_levels" /\ ret.args[1] = <<>>) =>
        /\ DOMAIN lm.levels = 1..8
        /\ \A level_id \in 1..8 : get_level(lm, level_id) # <<>>

\* What the code registers: the records a Level can be made from, which
\* leaves out level 8, whose difficulty 5 is no PuzzleDifficulty.
C30_SevenDefaultLevels ==
    (ret.op = "_load_levels" /\ ret.args[1] = <<>>) =>
        /\ DOMAIN lm.levels = 1..7
        /\ \A level_id \in 1..7 :
              /\ get_level(lm, level_id) # <<>>
              /\ get_level(lm, level_id)[1].level_id = level_id
        /\ get_level(lm, 8) = <<>>

(***************************************************************************)
(* Properties of the UI components.                                        *)
(***************************************************************************)

\* The names in the children list of p.
ChildrenOf(u, p) == { u.comp[p].children[i] : i \in 1..Len(u.comp[p].children) }

\* C31: after any add_child and remove_child calls the widget tree is
\* consistent: every k in p.children has k.parent == p, no component is
\* twice in one children list or in the children lists of two parents, and
\* remove_child returns True exactly when the child was present, clearing
\* its parent, and otherwise changes nothing.
C31_TreeConsistent ==
    /\ \A p \in DOMAIN ui.comp :
          /\ \A k \in ChildrenOf(ui, p) : ui.comp[k].parent = p
          /\ NoRepeat(ui.comp[p].children)
          /\ \A q \in DOMAIN ui.comp \ {p} :
                ChildrenOf(ui, p) \cap ChildrenOf(ui, q) = {}
    /\ ret.op = "remove_child" =>
          /\ ret.val = PyTrue =>
                /\ ui.comp[ret.args[2]].parent = PyNone
                /\ ret.args[2] \notin ChildrenOf(ui, ret.args[1])

\* What the code keeps: no component is twice in one children list, and
\* remove_child(child) returns True exactly when child was in the list,
\* takes it out and clears its parent, and otherwise changes nothing.
C31_RemoveChild ==
    /\ \A p \in DOMAIN ui.comp : NoRepeat(ui.comp[p].children)
    /\ [][ret'.op = "remove_child" =>
             LET p == ret'.args[1]
                 k == ret'.args[2]
             IN  IF k \in ChildrenOf(ui, p)
                 THEN /\ ret'.val = PyTrue
                      /\ ChildrenOf(ui', p) = ChildrenOf(ui, p) \ {k}
                      /\ ui'.comp[k].parent = PyNone
                 ELSE /\ ret'.val = PyFalse
                      /\ ui'.comp = ui.comp]_vars

\* The focus flag of a component: _focused for an InputField, which never
\* sets focused, and focused for the other components.
IsFocused(c) == IF c.cls = "InputField" THEN c._focused ELSE c.focused

FocusedChildren(u, p) == { k \in ChildrenOf(u, p) : IsFocused(u.comp[k]) }

\* C32: focus is exclusive among siblings: after any set_focus calls and
\* left mouse presses at most one child of a parent is focused; a component
\* (plain or InputField) that is given the focus takes it from every other
\* focused child of its parent, to which BLUR is dispatched.
C32_FocusExclusive ==
    \A p \in DOMAIN ui.comp : Cardinality(FocusedChildren(ui, p)) <= 1

\* What the code keeps: at most one of the plain components of a parent is
\* focused, and one that loses the focus to a sibling is sent BLUR.
C32_PlainFocusExclusive ==
    /\ \A p \in DOMAIN ui.comp :
          Cardinality({k \in FocusedChildren(ui, p) :
                          ui.comp[k].cls = "UIComponent"}) <= 1
    /\ [][\A k \in DOMAIN ui.comp :
             (ui.comp[k].cls = "UIComponent" /\ ui.comp[k].focused
                  /\ ~ui'.comp[k].focused) =>
                 InList(ui'.dispatched, <<"BLUR", k>>)]_vars

\* The components below c in the tree.
RECURSIVE Under(_, _)
Under(u, c) == ChildrenOf(u, c) \cup UNION { Under(u, k) : k \in ChildrenOf(u, c) }

\* handle_event of c handles a left press or release: c is shown and enabled
\* and the mouse was last seen over c or over a component below that does.
RECURSIVE WouldHandle(_, _)
WouldHandle(u, c) ==
    /\ u.comp[c].visible /\ u.comp[c].enabled
    /\ \/ u.comp[c].hovered
       \/ \E k \in ChildrenOf(u, c) : WouldHandle(u, k)

\* The place of child k in a list of names.
PlaceIn(list, k) == CHOOSE i \in 1..Len(list) : list[i] = k

\* The components an event of the given type was dispatched to.
TargetsOf(u, type) ==
    { u.dispatched[i][2] : i \in { j \in 1..Len(u.dispatched) : u.dispatched[j][1] = type } }

IsLeftPress(call) ==
    /\ call.op = "handle_event"
    /\ call.args[2] = MouseEvent("MOUSEBUTTONDOWN", 1)

\* C33: handle_event offers an event to the children before the parent, from
\* the topmost rendered child (highest z_index) to the bottommost, and the
\* first child that handles it ends the search; a hidden or disabled
\* component returns False and dispatches nothing.  Here: the child of self
\* that a left press went to has no sibling drawn above it that would have
\* handled the press.
C33_TopmostFirst ==
    IsLeftPress(ret) =>
        LET self == ret.args[1]
            drawn == render_order(ui, self)
        IN  \A t, c \in ChildrenOf(ui, self) :
                ((TargetsOf(ui, "PRESS") \cap ({t} \cup Under(ui, t)) # {})
                     /\ c # t /\ WouldHandle(ui, c)) =>
                    PlaceIn(drawn, c) < PlaceIn(drawn, t)

\* What the code does: the children are offered the event from the last of
\* self.children to the first, whatever their z_index, which is from the
\* topmost down when no z_index was assigned; the press goes to one
\* component only, and to self only when no child handles it; a call on a
\* hidden or disabled component returns False and changes nothing; and no
\* component that is hidden or disabled, or below one that is, is hovered,
\* pressed, clicked or focused by the call.
C33_ChildrenFirst ==
    [][ret'.op = "handle_event" =>
          LET self == ret'.args[1]
              children == ui.comp[self].children
              stopped == { c \in DOMAIN ui.comp :
                              ~ui.comp[c].visible \/ ~ui.comp[c].enabled }
              cut == stopped \cup UNION { Under(ui, c) : c \in stopped }
              handlers == { c \in ChildrenOf(ui, self) : WouldHandle(ui, c) }
          IN  /\ self \in stopped =>
                    /\ ret'.val = PyFalse
                    /\ ui'.comp = ui.comp
                    /\ ui'.dispatched = <<>>
              /\ \A k \in cut :
                    /\ ui'.comp[k] = [ui.comp[k] EXCEPT !.focused = ui'.comp[k].focused]
                    /\ ui.comp[k].focused \/ ~ui'.comp[k].focused
                    /\ \A type \in {"PRESS", "CLICK", "RELEASE", "HOVER", "FOCUS"} :
                          k \notin TargetsOf(ui', type)
              /\ IsLeftPress(ret') =>
                    /\ Cardinality(TargetsOf(ui', "PRESS")) <= 1
                    /\ Len(ui'.dispatched) <= 3
                    /\ ret'.val = PyTrue <=> TargetsOf(ui', "PRESS") # {}
                    /\ (self \notin stopped /\ handlers # {}) =>
                          LET last == CHOOSE c \in handlers :
                                          \A k \in handlers :
                                              PlaceIn(children, k) <= PlaceIn(children, c)
                          IN  /\ TargetsOf(ui', "PRESS") \subseteq {last} \cup Under(ui, last)
                              /\ ret'.val = PyTrue
                    /\ (self \notin stopped /\ handlers = {}) =>
                          TargetsOf(ui', "PRESS") \subseteq {self}]_vars

\* A press where back and front overlap, with no z_index assigned: front,
\* added last and drawn on top, is pressed.
C33_Witness ==
    /\ IsLeftPress(ret) /\ ret.args[1] = "stage" /\ ret.val = PyTrue
    /\ ui.comp["back"].z_index = ui.comp["front"].z_index
    /\ WouldHandle(ui, "back")
    /\ TargetsOf(ui, "PRESS") = {"front"}

(***************************************************************************)
(* Properties of the frame loop.                                           *)
(***************************************************************************)

\* The events handled from g on stop the game: one of them is QUIT, or is
\* key 3 while the state is MAIN_MENU at the time it is handled.
RECURSIVE Stops(_, _)
Stops(g, events) ==
    /\ events # <<>>
    /\ \/ Head(events).type = "QUIT"
       \/ Head(events) = Event("KEYDOWN", "K_3") /\ g.state = "MAIN_MENU"
       \/ Stops(handle_event(g, Head(events)), Tail(events))

\* A step of run() is a step that makes a call; the other steps post events.
RunCalls(op) == ret' # ret /\ ret'.op = op

\* C34: a QUIT event handled in any state, and key 3 pressed in MAIN_MENU,
\* make running False, and key 3 in any other state does not; running never
\* becomes True again; every frame calls handle_events, update and render in
\* that order; and once running is False run() finishes the frame and
\* exits, without another handle_events.
C34_QuitStopsRun ==
    /\ [][/\ ~game.running => ~game'.running
          /\ RunCalls("handle_events") =>
                /\ ret.op \in {"", "tick"}
                /\ game.running
                /\ game'.running = ~Stops(game, event_queue)
          /\ RunCalls("update") => ret.op = "handle_events"
          /\ RunCalls("render") => ret.op = "update"
          /\ RunCalls("tick") => ret.op = "render"
          /\ RunCalls("sys.exit") => ~game.running /\ ret.op \in {"", "tick"}
          /\ ~RunCalls("handle_events") => game' = game]_vars
    /\ (~game.running ~> ret.op = "sys.exit")

\* run() has exited from the main menu.
C34_Witness ==
    /\ ~game.running
    /\ game.state = "MAIN_MENU"
    /\ ret.op = "sys.exit"

\* Key 3 is about to be handled outside the main menu.
C34_WitnessKey3 ==
    /\ game.running
    /\ game.state = "DATA_STRUCTURE_SELECT"
    /\ ret.op = "tick"
    /\ event_queue = <<Event("KEYDOWN", "K_3")>>

====
